---- MODULE Spec2Model ----
(***************************************************************************)
(* State-machine model of the planner's client-side state and form layer:  *)
(* the UI store (useUiStore.ts) with its persisted subset, the task and    *)
(* event filter stores, the validation schemas, the two forms and the      *)
(* query/mutation hooks.                                                   *)
(***************************************************************************)
EXTENDS Integers, Sequences, FiniteSets, TLC

VARIABLES
    ui,            \* state of useUiStore
    storage,       \* localStorage["ui-store"]: the partialize()d record
    taskStore,     \* state of useTaskStore
    eventStore,    \* state of useEventStore
    op,            \* name of the handler that ran last
    uiSteps,       \* number of user-driven steps and reloads so far
    now,           \* the instant new Date() returns
    refineCtx,     \* what the schema library hands a refine() callback as 2nd argument
    currentUserId, \* useAuth().user?.id
    eventModule,   \* which revision of stores/useEventStore.ts is built
    schemaIn,      \* input handed to a schema
    schemaOut,     \* what the schema made of it
    taskForm,      \* the TaskForm instance
    eventForm,     \* the EventForm instance
    requests,      \* calls received by the remote collaborator, in order
    remoteTasks,   \* the rows of the remote tasks table, by id
    remoteEvents,  \* the rows of the remote events table, by id
    remoteReads,   \* the reads of one entity or one event's members the remote side received
    memberStore,   \* state of useMemberStore
    memberModule,  \* which revision of stores/useMemberStore.ts is built
    cache,         \* the query client's cache: one entry per query key
    views,         \* which query observers are mounted
    fetchCount,    \* number of queryFn calls so far
    lastFetch      \* the latest queryFn call

uiVars == <<ui, storage, uiSteps>>
storeVars == <<taskStore, eventStore>>
envVars == <<now, refineCtx, currentUserId, eventModule>>
schemaVars == <<schemaIn, schemaOut>>
formVars == <<taskForm, eventForm>>
queryVars == <<cache, views, fetchCount, lastFetch>>
memberVars == <<remoteEvents, remoteReads, memberStore, memberModule>>

vars == <<ui, storage, taskStore, eventStore, op, uiSteps, now, refineCtx,
          currentUserId, eventModule, schemaIn, schemaOut, taskForm, eventForm,
          requests, remoteTasks, remoteEvents, remoteReads, memberStore, memberModule,
          cache, views, fetchCount, lastFetch>>

\* Bound on the number of user-driven steps in a session.
MaxUiSteps == 3

\* The JavaScript null.
NULL == "<null>"

(***************************************************************************)
(* Input domains.                                                          *)
(***************************************************************************)
EventIds == {"e1"}
TaskIds == {"t1"}
Themes == {"light", "dark"}
SortDirections == {"asc", "desc"}
TaskFilterStatuses == {"Due Date", "Status"}
UiTaskSortBys == {"Priority", "Due Date"}
ViewModes == {"list", "board"}

\* Partial<DashboardWidgetState> arguments passed to setDashboardWidgetState.
WidgetPartials ==
    { [miniCalendar |-> TRUE],
      [upcomingEvents |-> FALSE],
      [upcomingDeadlines |-> FALSE],
      [progressOverview |-> FALSE],
      [recentActivity |-> FALSE],
      [recentActivity |-> FALSE, miniCalendar |-> FALSE] }

\* Partial<AdvancedFilters> arguments passed to setAdvancedFilters.
AdvancedFilterPartials ==
    { [advancedStatus |-> <<"Done">>, hasActiveFilters |-> TRUE],
      [advancedPriority |-> <<"High">>] }

(***************************************************************************)
(* useUiStore                                                              *)
(***************************************************************************)
ModalFlags ==
    { "isEventFormOpen", "isTaskFormOpen", "isCustomizeDashboardOpen",
      "isFilterPanelOpen", "isUserSettingsOpen" }

InitialAdvancedFilters ==
    [ advancedStatus |-> <<>>,
      advancedPriority |-> <<>>,
      advancedAssignees |-> <<>>,
      advancedDateRange |-> NULL,
      hasActiveFilters |-> FALSE ]

InitialUiState ==
    [ isEventFormOpen |-> FALSE,
      isTaskFormOpen |-> FALSE,
      isCustomizeDashboardOpen |-> FALSE,
      isFilterPanelOpen |-> FALSE,
      isUserSettingsOpen |-> FALSE,
      taskFilterStatus |-> "Due Date",
      taskSortBy |-> "Priority",
      taskSortDirection |-> "desc",
      advancedFilters |-> InitialAdvancedFilters,
      showCompletedTasks |-> TRUE,
      showPersonalTasks |-> TRUE,
      currentEventId |-> NULL,
      currentTaskId |-> NULL,
      theme |-> "dark",
      isSidebarCollapsed |-> FALSE,
      dashboardWidgetState |->
          [ upcomingEvents |-> TRUE,
            upcomingDeadlines |-> TRUE,
            recentActivity |-> TRUE,
            progressOverview |-> TRUE,
            miniCalendar |-> FALSE ],
      viewMode |-> "list" ]

\* { ...base, ...partial }: the object spread used by zustand's set() and by
\* the compound setters.
Merge(base, partial) ==
    [ f \in DOMAIN base |-> IF f \in DOMAIN partial THEN partial[f] ELSE base[f] ]

\* The keys partialize() keeps.
PersistedKeys ==
    { "theme", "isSidebarCollapsed", "taskFilterStatus", "taskSortBy",
      "taskSortDirection", "dashboardWidgetState", "viewMode",
      "showCompletedTasks", "showPersonalTasks" }

\* partialize() without its last line: showPersonalTasks is not written.
partialize_DropsShowPersonalTasks(state) ==
    [ f \in PersistedKeys \ {"showPersonalTasks"} |-> state[f] ]

partialize(state) == [ f \in PersistedKeys |-> state[f] ]

\* persist's rehydration: the stored record spread over the initial state.
hydrate(stored) == Merge(InitialUiState, stored)

\* closeAllModals() that forgets to reset currentTaskId.
closeAllModals_KeepsTaskId(state) ==
    Merge(state,
          [ isEventFormOpen |-> FALSE,
            isTaskFormOpen |-> FALSE,
            isCustomizeDashboardOpen |-> FALSE,
            isFilterPanelOpen |-> FALSE,
            isUserSettingsOpen |-> FALSE,
            currentEventId |-> NULL ])

\* closeAllModals() that forgets to reset currentEventId.
closeAllModals_KeepsEventId(state) ==
    Merge(state,
          [ isEventFormOpen |-> FALSE,
            isTaskFormOpen |-> FALSE,
            isCustomizeDashboardOpen |-> FALSE,
            isFilterPanelOpen |-> FALSE,
            isUserSettingsOpen |-> FALSE,
            currentTaskId |-> NULL ])

\* closeAllModals() that also flips a persisted preference.
closeAllModals_TogglesSidebar(state) ==
    Merge(state,
          [ isEventFormOpen |-> FALSE,
            isTaskFormOpen |-> FALSE,
            isCustomizeDashboardOpen |-> FALSE,
            isFilterPanelOpen |-> FALSE,
            isUserSettingsOpen |-> FALSE,
            currentEventId |-> NULL,
            currentTaskId |-> NULL,
            isSidebarCollapsed |-> ~state.isSidebarCollapsed ])

\* The state closeAllModals() sets.
closeAllModals(state) ==
    Merge(state,
          [ isEventFormOpen |-> FALSE,
            isTaskFormOpen |-> FALSE,
            isCustomizeDashboardOpen |-> FALSE,
            isFilterPanelOpen |-> FALSE,
            isUserSettingsOpen |-> FALSE,
            currentEventId |-> NULL,
            currentTaskId |-> NULL ])

\* A set() on the persisted store: the new state, and the write of its
\* partialize()d subset to localStorage that persist adds to every set().
UiSet(next, name) ==
    /\ ui' = next
    /\ storage' = partialize(next)
    /\ op' = name

\* One more user-driven step within the session bound.
UiStep ==
    /\ uiSteps < MaxUiSteps
    /\ uiSteps' = uiSteps + 1

UiOnly ==
    /\ UiStep
    /\ UNCHANGED <<storeVars, envVars, memberVars, remoteTasks, schemaVars, formVars, requests, queryVars>>

\* openEventForm() that flips the flag like the panel toggles do.
openEventForm_Toggles ==
    \E eventId \in EventIds \cup {NULL} :
        /\ UiSet(Merge(ui, [isEventFormOpen |-> ~ui.isEventFormOpen, currentEventId |-> eventId]),
                 "openEventForm")
        /\ UiOnly

openEventForm ==
    \E eventId \in EventIds \cup {NULL} :
        /\ UiSet(Merge(ui, [isEventFormOpen |-> TRUE, currentEventId |-> eventId]),
                 "openEventForm")
        /\ UiOnly

openTaskForm ==
    \E taskId \in TaskIds \cup {NULL} :
        /\ UiSet(Merge(ui, [isTaskFormOpen |-> TRUE, currentTaskId |-> taskId]),
                 "openTaskForm")
        /\ UiOnly

CloseAllModals ==
    /\ UiSet(closeAllModals(ui), "closeAllModals")
    /\ UiOnly

toggleCustomizeDashboard ==
    /\ UiSet(Merge(ui, [isCustomizeDashboardOpen |-> ~ui.isCustomizeDashboardOpen]),
             "toggleCustomizeDashboard")
    /\ UiOnly

toggleFilterPanel ==
    /\ UiSet(Merge(ui, [isFilterPanelOpen |-> ~ui.isFilterPanelOpen]),
             "toggleFilterPanel")
    /\ UiOnly

toggleUserSettings ==
    /\ UiSet(Merge(ui, [isUserSettingsOpen |-> ~ui.isUserSettingsOpen]),
             "toggleUserSettings")
    /\ UiOnly

setTaskFilterStatus ==
    \E status \in TaskFilterStatuses :
        /\ UiSet(Merge(ui, [taskFilterStatus |-> status]), "setTaskFilterStatus")
        /\ UiOnly

setUiTaskSortBy ==
    \E sortBy \in UiTaskSortBys :
        /\ UiSet(Merge(ui, [taskSortBy |-> sortBy]), "setTaskSortBy")
        /\ UiOnly

setUiTaskSortDirection ==
    \E direction \in SortDirections :
        /\ UiSet(Merge(ui, [taskSortDirection |-> direction]), "setTaskSortDirection")
        /\ UiOnly

clearAdvancedFilters ==
    /\ UiSet(Merge(ui, [advancedFilters |-> InitialAdvancedFilters]),
             "clearAdvancedFilters")
    /\ UiOnly

setAdvancedFilters ==
    \E filters \in AdvancedFilterPartials :
        /\ UiSet(Merge(ui, [advancedFilters |-> Merge(ui.advancedFilters, filters)]),
                 "setAdvancedFilters")
        /\ UiOnly

setUiShowCompletedTasks ==
    \E show \in BOOLEAN :
        /\ UiSet(Merge(ui, [showCompletedTasks |-> show]), "setShowCompletedTasks")
        /\ UiOnly

setUiShowPersonalTasks ==
    \E show \in BOOLEAN :
        /\ UiSet(Merge(ui, [showPersonalTasks |-> show]), "setShowPersonalTasks")
        /\ UiOnly

setTheme ==
    \E theme \in Themes :
        /\ UiSet(Merge(ui, [theme |-> theme]), "setTheme")
        /\ UiOnly

toggleSidebar ==
    /\ UiSet(Merge(ui, [isSidebarCollapsed |-> ~ui.isSidebarCollapsed]),
             "toggleSidebar")
    /\ UiOnly

setCurrentEventId ==
    \E id \in EventIds \cup {NULL} :
        /\ UiSet(Merge(ui, [currentEventId |-> id]), "setCurrentEventId")
        /\ UiOnly

setCurrentTaskId ==
    \E id \in TaskIds \cup {NULL} :
        /\ UiSet(Merge(ui, [currentTaskId |-> id]), "setCurrentTaskId")
        /\ UiOnly

\* setDashboardWidgetState() that spreads the partial over the initial toggles.
setDashboardWidgetState_OverDefaults ==
    \E widgets \in WidgetPartials :
        /\ UiSet(Merge(ui, [dashboardWidgetState |->
                                Merge(InitialUiState.dashboardWidgetState, widgets)]),
                 "setDashboardWidgetState")
        /\ UiOnly

setDashboardWidgetState ==
    \E widgets \in WidgetPartials :
        /\ UiSet(Merge(ui, [dashboardWidgetState |->
                                Merge(ui.dashboardWidgetState, widgets)]),
                 "setDashboardWidgetState")
        /\ UiOnly

setUiViewMode ==
    \E mode \in ViewModes :
        /\ UiSet(Merge(ui, [viewMode |-> mode]), "setViewMode")
        /\ UiOnly

(***************************************************************************)
(* Text, dates and times as the schemas read them.  A text is the sequence *)
(* of its characters; a date, date-time or time is the string an           *)
(* <input type="date|datetime-local|time"> yields, "" when left blank.     *)
(***************************************************************************)
UNDEFINED == "<undefined>"

\* !value for a string-or-null-or-undefined value.
Falsy(value) == value \in {"", NULL, UNDEFINED}

RECURSIVE trimStart(_)
trimStart(text) ==
    IF text # <<>> /\ Head(text) = " " THEN trimStart(Tail(text)) ELSE text

RECURSIVE trimEnd(_)
trimEnd(text) ==
    IF text # <<>> /\ text[Len(text)] = " "
    THEN trimEnd(SubSeq(text, 1, Len(text) - 1))
    ELSE text

\* String.prototype.trim
trim(text) == trimEnd(trimStart(text))

\* Resolution of the clock: instants per calendar day.
TicksPerDay == 2

\* Index of the calendar day a "YYYY-MM-DD" string names.
DayIndex(date) ==
    CASE date = "2025-10-31" -> 0
      [] date = "2025-11-01" -> 1
      [] date = "2025-11-02" -> 2

\* new Date("YYYY-MM-DD"): the instant of UTC midnight opening that day.
DateInstant(date) == DayIndex(date) * TicksPerDay

\* new Date("YYYY-MM-DDTHH:mm"): the local instant, here in hours of the day.
DateTimeInstant(dateTime) ==
    CASE dateTime = "2025-11-01T09:00" -> 9
      [] dateTime = "2025-11-01T10:00" -> 10

\* The instants new Date() may return: midnight and midday of 2025-11-01.
Nows == { DateInstant("2025-11-01"), DateInstant("2025-11-01") + 1 }

\* Whether refine() callbacks get a context with the sibling fields as
\* `parent` ("parent"), or no second argument at all ("undefined").
RefineCtxs == {"parent", "undefined"}

Issue(path, message) == [path |-> path, message |-> message]

(***************************************************************************)
(* taskSchema.ts                                                           *)
(***************************************************************************)
Priorities == {"Urgent", "High", "Normal", "Low"}
Statuses == {"To Do", "In Progress", "Done"}

\* subtaskSchema.title: trim, optional, then the refinement
\* (val) => !val || val.length > 0.
SubtaskTitleOk(subtask) ==
    IF "title" \notin DOMAIN subtask
    THEN TRUE
    ELSE LET val == trim(subtask.title)
         IN  val = <<>> \/ Len(val) > 0

SubtaskIssues(subtasks) ==
    { Issue(<<"subtasks", i, "title">>, "Subtask name cannot be empty.") :
        i \in { j \in DOMAIN subtasks : ~SubtaskTitleOk(subtasks[j]) } }

\* title: z.string().min(1, ...).trim(): the length check sees the raw text.
TitleIssues(title) ==
    IF Len(title) < 1
    THEN { Issue(<<"title">>, "Please enter a task title.") }
    ELSE {}

PriorityIssues(priority) ==
    IF priority \in Priorities THEN {} ELSE { Issue(<<"priority">>, "Invalid enum value") }

StatusIssues(status) ==
    IF status \in Statuses THEN {} ELSE { Issue(<<"status">>, "Invalid enum value") }

\* A dueDate refinement that also rejects the current instant.
DueDateOk_Strict(date, clock) == Falsy(date) \/ DateInstant(date) > clock

\* dueDate refinement: (date) => !date || new Date(date) >= new Date()
DueDateOk(date, clock) == Falsy(date) \/ DateInstant(date) >= clock

DueDateIssues(date, clock) ==
    IF DueDateOk(date, clock)
    THEN {}
    ELSE { Issue(<<"dueDate">>, "Due date cannot be in the past.") }

\* assignees: z.array(z.string()).min(1, ...)
AssigneesIssues(assignees) ==
    IF Len(assignees) < 1
    THEN { Issue(<<"assignees">>, "Please select at least one assignee.") }
    ELSE {}

\* The scheduleEnd refinement, reading scheduleStart and isScheduled from
\* ctx.parent.
ScheduleEndOk(end, parent) ==
    IF ~parent.isScheduled \/ Falsy(end) \/ Falsy(parent.scheduleStart)
    THEN TRUE
    ELSE DateTimeInstant(end) >= DateTimeInstant(parent.scheduleStart)

ScheduleEndIssues(values) ==
    IF ScheduleEndOk(values.scheduleEnd, values)
    THEN {}
    ELSE { Issue(<<"scheduleEnd">>, "End time must be after start time.") }

\* What taskSchema makes of a valid input: title and subtask titles trimmed.
TaskOutput(values) ==
    [ values EXCEPT
        !.title = trim(values.title),
        !.subtasks =
            [ i \in DOMAIN values.subtasks |->
                IF "title" \in DOMAIN values.subtasks[i]
                THEN [ values.subtasks[i] EXCEPT !.title = trim(values.subtasks[i].title) ]
                ELSE values.subtasks[i] ] ]

\* taskSchema.parse(values): "threw" when the scheduleEnd refinement
\* dereferences a context it was not given, else "invalid" with the issues
\* found, else "valid" with the parsed data.
taskSchema(values, clock, ctx) ==
    LET issues ==
            TitleIssues(values.title)
            \cup PriorityIssues(values.priority)
            \cup StatusIssues(values.status)
            \cup DueDateIssues(values.dueDate, clock)
            \cup AssigneesIssues(values.assignees)
            \cup ScheduleEndIssues(values)
            \cup SubtaskIssues(values.subtasks)
    IN  IF ctx = "undefined"
        THEN [ outcome |-> "threw", issues |-> {}, data |-> values ]
        ELSE IF issues # {}
        THEN [ outcome |-> "invalid", issues |-> issues, data |-> values ]
        ELSE [ outcome |-> "valid", issues |-> {}, data |-> TaskOutput(values) ]

\* Inputs handed to taskSchema.
TaskTitles == { <<>>, <<" ">>, <<" ", "B">> }
TaskDueDates == { UNDEFINED, NULL, "", "2025-10-31", "2025-11-01", "2025-11-02" }
TaskSchedules == { "", NULL, "2025-11-01T09:00", "2025-11-01T10:00" }
TaskSubtasks ==
    { <<>>,
      << [completed |-> FALSE] >>,
      << [title |-> <<>>, completed |-> FALSE] >>,
      << [title |-> <<" ">>, completed |-> FALSE] >>,
      << [title |-> <<"s">>, completed |-> FALSE] >> }

TaskInputs ==
    [ title : TaskTitles,
      description : {""},
      priority : {"High", "Critical"},
      status : {"To Do", "Archived"},
      dueDate : TaskDueDates,
      assignees : { <<>>, <<"u2">> },
      relatedEventName : {""},
      isPersonal : BOOLEAN,
      isScheduled : BOOLEAN,
      scheduleStart : TaskSchedules,
      scheduleEnd : TaskSchedules,
      subtasks : TaskSubtasks,
      attachments : { <<>> } ]

(***************************************************************************)
(* useTaskStore and useEventStore: local filter, sort and selection state. *)
(* Two revisions of stores/useEventStore.ts are in the sources: one calls  *)
(* an HTTP API ("http"), the other the database client ("supabase").       *)
(***************************************************************************)
EventModules == {"http", "supabase"}

InitialTaskStore ==
    [ selectedTaskId |-> NULL,
      totalCount |-> 0,
      showingCount |-> 0,
      searchKeyword |-> "",
      quickFilter |-> "Due Date",
      taskSortBy |-> "Due Date (Earliest)",
      taskSortDirection |-> "asc",
      viewMode |-> "List View",
      filterByStatus |-> <<"To Do", "In Progress", "Done">>,
      filterByPriority |-> <<"Urgent", "High", "Normal", "Low">>,
      showCompletedTasks |-> TRUE,
      showPersonalTasks |-> TRUE ]

InitialEventStore(module) ==
    [ selectedEventId |-> NULL,
      searchKeyword |-> "",
      eventSortBy |-> IF module = "supabase" THEN "startDate" ELSE "Start Date (Soonest)",
      eventSortDirection |-> "asc",
      filterByProgress |-> <<"Not Started", "In Progress", "Completed">>,
      filterByDate |->
          IF module = "supabase"
          THEN <<"Past", "This Week", "This Month", "Future">>
          ELSE <<"Past Events", "This Week", "This Month", "Future Events">>,
      totalCount |-> 0,
      showingCount |-> 0 ]

(***************************************************************************)
(* The query hooks: keys, queryFn parameters and the query client's cache. *)
(***************************************************************************)
RECURSIVE Join(_)
\* Array.prototype.join(",")
Join(items) ==
    IF items = <<>> THEN ""
    ELSE IF Len(items) = 1 THEN items[1]
    ELSE items[1] \o "," \o Join(Tail(items))

\* A query key that leaves the search keyword out.
TaskListInputs_NoSearch ==
    { "quickFilter", "taskSortBy", "taskSortDirection",
      "filterByStatus", "filterByPriority", "showCompletedTasks", "showPersonalTasks" }

\* The store fields useFetchTasks puts in its query key.
TaskListInputs ==
    { "searchKeyword", "quickFilter", "taskSortBy", "taskSortDirection",
      "filterByStatus", "filterByPriority", "showCompletedTasks", "showPersonalTasks" }

\* queryKey of useFetchTasks: ["tasks", { ...inputs }]
TaskListKey(store) ==
    [ scope |-> "tasks", args |-> [ f \in TaskListInputs |-> store[f] ] ]

\* The argument useFetchTasks' queryFn hands fetchTasks.
TaskListParams(store) ==
    [ search |-> store.searchKeyword,
      quickFilter |-> store.quickFilter,
      sortBy |-> store.taskSortBy,
      sortDirection |-> store.taskSortDirection,
      status |-> Join(store.filterByStatus),
      priority |-> Join(store.filterByPriority),
      showCompleted |-> IF store.showCompletedTasks THEN "1" ELSE "0",
      showPersonal |-> IF store.showPersonalTasks THEN "1" ELSE "0" ]

\* queryKey of useFetchTask: ["task", taskId]
TaskKey(taskId) == [ scope |-> "task", args |-> [ taskId |-> taskId ] ]

\* queryKey of useMembers: ["members", eventId]
MembersKey(eventId) == [ scope |-> "members", args |-> [ eventId |-> eventId ] ]

\* queryKey of useFetchEvent, the singular fetch of the events namespace.
EventKey(eventId) == [ scope |-> "event", args |-> [ eventId |-> eventId ] ]

\* The store fields useFetchEvents puts in its query key.
EventListInputs(module) ==
    IF module = "supabase"
    THEN { "searchKeyword", "eventSortBy", "eventSortDirection", "filterByProgress" }
    ELSE { "searchKeyword", "eventSortBy", "eventSortDirection", "filterByProgress",
           "filterByDate" }

\* queryKey of useFetchEvents: ["events", { ...inputs }]
EventListKey(store, module) ==
    [ scope |-> "events", args |-> [ f \in EventListInputs(module) |-> store[f] ] ]

\* The argument useFetchEvents' queryFn hands fetchEvents.
EventListParams(store, module) ==
    IF module = "supabase"
    THEN [ search |-> store.searchKeyword,
           sortBy |-> store.eventSortBy,
           sortDirection |-> store.eventSortDirection,
           progress |-> Join(store.filterByProgress) ]
    ELSE [ search |-> store.searchKeyword,
           sortBy |-> store.eventSortBy,
           sortDirection |-> store.eventSortDirection,
           progress |-> Join(store.filterByProgress),
           dateFilter |-> Join(store.filterByDate) ]

\* No view is mounted.  A mounted view of one task or of one event's members
\* carries the id its hook was last rendered with; the task list's observer
\* remembers the data of the last query it showed data of.
NoViews ==
    [ taskList |-> FALSE, eventList |-> FALSE,
      taskDetail |-> [ mounted |-> FALSE ], members |-> [ mounted |-> FALSE ],
      previousData |-> [ undefined |-> TRUE ] ]

\* A query hook that is enabled whatever its id.
Enabled_Always(id) == TRUE

\* enabled: !!taskId, enabled: !!eventId
Enabled(id) == ~Falsy(id)

\* The cache, the queryFn call count and the latest queryFn call, as one value.
QueryNow == [ cache |-> cache, fetchCount |-> fetchCount, lastFetch |-> lastFetch ]

QuerySet(q) ==
    /\ cache' = q.cache
    /\ fetchCount' = q.fetchCount
    /\ lastFetch' = q.lastFetch

Fetching(c, key) == \E e \in c : e.key = key /\ e.fetchStatus = "fetching"

\* An observer subscribing to `key` (on mount, or when a re-render gives
\* useQuery another key): the query is created if absent and, having no
\* staleTime, fetched, unless a fetch of it is already in flight.
Observe(q, key, params) ==
    IF Fetching(q.cache, key)
    THEN q
    ELSE LET cached == { e \in q.cache : e.key = key }
             query == IF cached = {}
                      THEN [ key |-> key, fetchStatus |-> "idle", isInvalidated |-> FALSE,
                             status |-> "pending", data |-> [ undefined |-> TRUE ],
                             params |-> params ]
                      ELSE CHOOSE e \in cached : TRUE
         IN  [ cache |-> (q.cache \ cached)
                         \cup { [ query EXCEPT !.fetchStatus = "fetching",
                                               !.params = params ] },
               fetchCount |-> q.fetchCount + 1,
               lastFetch |-> [ scope |-> key.scope, params |-> params ] ]

\* The data a list observer remembers once it observes `key`: that of the
\* key's query if it has some, else what it remembered before.
Shown(c, key, previous) ==
    IF \E e \in c : e.key = key /\ e.data # [ undefined |-> TRUE ]
    THEN (CHOOSE e \in c : e.key = key).data
    ELSE previous

\* The re-render of a mounted list view after its store changed.
Rerender(q, mounted, oldKey, key, params) ==
    IF mounted /\ key # oldKey THEN Observe(q, key, params) ELSE q

\* queryClient.invalidateQueries({ queryKey: [scope] }): every query whose
\* key starts with `scope` is marked invalidated, and those with a mounted
\* observer (`active`) are fetched again.
invalidateQueries(q, scope, active, params) ==
    LET matching == { e \in q.cache : e.key.scope = scope }
        refetched == { e \in matching : e.key \in active }
    IN  [ cache |->
              (q.cache \ matching)
              \cup { [ e EXCEPT !.isInvalidated = TRUE,
                                !.fetchStatus =
                                    IF e \in refetched THEN "fetching" ELSE e.fetchStatus,
                                !.params = IF e \in refetched THEN params ELSE e.params ] :
                     e \in matching },
          fetchCount |-> q.fetchCount + Cardinality(refetched),
          lastFetch |->
              IF refetched = {}
              THEN q.lastFetch
              ELSE [ scope |-> scope, params |-> params ] ]

\* The keys that have a mounted, enabled observer.
ActiveKeys ==
    (IF views.taskList THEN { TaskListKey(taskStore) } ELSE {})
    \cup (IF views.eventList THEN { EventListKey(eventStore, eventModule) } ELSE {})
    \cup (IF views.taskDetail.mounted /\ Enabled(views.taskDetail.taskId)
          THEN { TaskKey(views.taskDetail.taskId) } ELSE {})
    \cup (IF views.members.mounted /\ Enabled(views.members.eventId)
          THEN { MembersKey(views.members.eventId) } ELSE {})

(***************************************************************************)
(* The remote side as the read functions see it.                           *)
(***************************************************************************)
\* What a table holds under the id of a row that does not exist.
NoRow == [ deleted |-> TRUE ]

\* fetchTasks(params): the ids of the rows the query built from params
\* selects; a filter is added only for a parameter that is truthy.
fetchTasks(rows, params) ==
    LET \* the characters of a search keyword
        chars(keyword) ==
            CASE keyword = "" -> <<>>
              [] keyword = "crew" -> <<"c", "r", "e", "w">>
              [] keyword = "c_ew" -> <<"c", "_", "e", "w">>
        lower(ch) == CASE ch = "A" -> "a" [] ch = "B" -> "b" [] ch = "C" -> "c"
                       [] ch = "E" -> "e" [] OTHER -> ch
        \* column ILIKE pattern: % stands for any run of characters, _ for
        \* any one character, and letters match whatever their case
        RECURSIVE ilike(_, _)
        ilike(text, pattern) ==
            IF pattern = <<>>
            THEN text = <<>>
            ELSE IF Head(pattern) = "%"
            THEN \/ ilike(text, Tail(pattern))
                 \/ text # <<>> /\ ilike(Tail(text), pattern)
            ELSE /\ text # <<>>
                 /\ Head(pattern) = "_" \/ lower(Head(pattern)) = lower(Head(text))
                 /\ ilike(Tail(text), Tail(pattern))
        \* split(","): the list that join(",") made the string of
        split(joined) ==
            CHOOSE list \in { <<"To Do", "In Progress", "Done">>, <<"Done">>, <<"To Do">>,
                              <<"Urgent", "High", "Normal", "Low">>, <<"Urgent">> } :
                Join(list) = joined
        among(value, list) == \E i \in DOMAIN list : list[i] = value
    IN  { id \in DOMAIN rows :
            /\ rows[id] # NoRow
            /\ params.search # ""
               => ilike(rows[id].title, <<"%">> \o chars(params.search) \o <<"%">>)
            /\ params.status # "" => among(rows[id].status, split(params.status))
            /\ params.priority # "" => among(rows[id].priority, split(params.priority))
            /\ params.showCompleted = "0" => rows[id].status # "Done"
            /\ params.showPersonal = "0" => rows[id].isPersonal = FALSE }

\* The queryFn of the query `key`, called with the arguments the hook that
\* started the fetch gave it, run against what the remote side holds:
\* the reads of one row or of one event's members it sends (`reads`),
\* whether it finds what it asks for, a read with .single() failing when
\* there is no such row (`found`), and what it then returns (`data`).
\* useFetchTask's returns null for a missing id without a read; useMembers'
\* returns an empty list, except in the first HTTP revision, which fetches
\* whatever its eventId is.
queryFn(key, params) ==
    LET id == IF key.scope = "task" THEN key.args.taskId
              ELSE IF key.scope \in {"event", "members"} THEN key.args.eventId
              ELSE NULL
        rows == IF key.scope = "task" THEN remoteTasks ELSE remoteEvents
        membersOf(eventId) == IF eventId = "e1" THEN << "m1" >> ELSE <<>>
    IN  CASE key.scope = "tasks" ->
                 [ reads |-> {}, found |-> TRUE,
                   data |-> [ params |-> params, ids |-> fetchTasks(remoteTasks, params) ] ]
          [] key.scope = "events" ->
                 [ reads |-> {}, found |-> TRUE, data |-> [ params |-> params ] ]
          [] key.scope \in {"task", "event"} ->
                 IF Enabled(id)
                 THEN [ reads |-> { [ scope |-> key.scope, id |-> id ] },
                        found |-> id \in DOMAIN rows /\ rows[id] # NoRow,
                        data |-> IF id \in DOMAIN rows THEN rows[id] ELSE NoRow ]
                 ELSE [ reads |-> {}, found |-> TRUE, data |-> [ null |-> TRUE ] ]
          [] key.scope = "members" ->
                 IF Enabled(id) \/ memberModule = "http-refetch"
                 THEN [ reads |-> { [ scope |-> "members", id |-> id ] },
                        found |-> Enabled(id), data |-> [ members |-> membersOf(id) ] ]
                 ELSE [ reads |-> {}, found |-> TRUE, data |-> [ members |-> <<>> ] ]

(***************************************************************************)
(* useMemberStore.  Three revisions of stores/useMemberStore.ts are in the *)
(* sources: the database client's ("supabase"), and two calling the HTTP   *)
(* API, of which the first ("http-refetch") has useMembers call            *)
(* fetchMembers from onSuccess and the second ("http") write the store.    *)
(* Besides the store's state, memberStore holds the fetchMembers calls     *)
(* that await their response (inFlight).                                   *)
(***************************************************************************)
\* What useMembers(eventId) returns as data: the store's members.
useMembers(eventId) == memberStore.members

\* What useFetchTasks() returns as data: the data of the query of the
\* store's current key, and while that query has none and is pending,
\* placeholderData: (prev) => prev, the data the observer showed last.
useFetchTasks ==
    LET cached == { e \in cache : e.key = TaskListKey(taskStore) }
        query == CHOOSE e \in cached : TRUE
    IN  IF cached # {} /\ query.data # [ undefined |-> TRUE ]
        THEN [ data |-> query.data, isPlaceholderData |-> FALSE ]
        ELSE IF cached # {} /\ query.status = "pending"
        THEN [ data |-> views.previousData,
               isPlaceholderData |-> views.previousData # [ undefined |-> TRUE ] ]
        ELSE [ data |-> [ undefined |-> TRUE ], isPlaceholderData |-> FALSE ]

\* What useFetchTask(taskId) returns as data and isError.
useFetchTask(taskId) ==
    LET cached == { e \in cache : e.key = TaskKey(taskId) }
    IN  IF cached = {}
        THEN [ data |-> [ undefined |-> TRUE ], isError |-> FALSE ]
        ELSE LET query == CHOOSE e \in cached : TRUE
             IN  [ data |-> query.data, isError |-> query.status = "error" ]

\* A list view mounts: useFetchTasks() runs for the first time.
MountTaskList ==
    /\ ~views.taskList
    /\ views' = [ views EXCEPT !.taskList = TRUE,
                               !.previousData = Shown(cache, TaskListKey(taskStore), @) ]
    /\ QuerySet(Observe(QueryNow, TaskListKey(taskStore), TaskListParams(taskStore)))
    /\ op' = "useFetchTasks"
    /\ UiStep
    /\ UNCHANGED <<ui, storage, storeVars, envVars, memberVars, remoteTasks, schemaVars, formVars, requests>>

\* A list view mounts: useFetchEvents() runs for the first time.
MountEventList ==
    /\ ~views.eventList
    /\ views' = [ views EXCEPT !.eventList = TRUE ]
    /\ QuerySet(Observe(QueryNow, EventListKey(eventStore, eventModule),
                        EventListParams(eventStore, eventModule)))
    /\ op' = "useFetchEvents"
    /\ UiStep
    /\ UNCHANGED <<ui, storage, storeVars, envVars, memberVars, remoteTasks, schemaVars, formVars, requests>>

\* A view of one task renders useFetchTask(taskId): it mounts, or it is
\* given another taskId.  The query is fetched only when enabled.
MountTaskDetail ==
    \E taskId \in TaskIds \cup {NULL, UNDEFINED, ""} :
        /\ views.taskDetail # [ mounted |-> TRUE, taskId |-> taskId ]
        /\ views' = [ views EXCEPT !.taskDetail = [ mounted |-> TRUE, taskId |-> taskId ] ]
        /\ IF Enabled(taskId)
           THEN /\ QuerySet(Observe(QueryNow, TaskKey(taskId), [ id |-> taskId ]))
                /\ remoteReads' = remoteReads \cup queryFn(TaskKey(taskId), [ id |-> taskId ]).reads
           ELSE UNCHANGED <<cache, fetchCount, lastFetch, remoteReads>>
        /\ op' = "useFetchTask"
        /\ UiStep
        /\ UNCHANGED <<ui, storage, storeVars, envVars, remoteEvents, memberStore, memberModule,
                       remoteTasks, schemaVars, formVars, requests>>

\* A consumer renders useMembers(eventId): it mounts, or it is given
\* another eventId.
MountMembers ==
    \E eventId \in EventIds \cup {"e2", UNDEFINED, ""} :
        /\ views.members # [ mounted |-> TRUE, eventId |-> eventId ]
        /\ views' = [ views EXCEPT !.members = [ mounted |-> TRUE, eventId |-> eventId ] ]
        /\ IF Enabled(eventId)
           THEN /\ QuerySet(Observe(QueryNow, MembersKey(eventId), [ eventId |-> eventId ]))
                /\ remoteReads' = remoteReads \cup queryFn(MembersKey(eventId), [ eventId |-> eventId ]).reads
           ELSE UNCHANGED <<cache, fetchCount, lastFetch, remoteReads>>
        /\ op' = "useMembers"
        /\ UiStep
        /\ UNCHANGED <<ui, storage, storeVars, envVars, remoteEvents, memberStore, memberModule,
                       remoteTasks, schemaVars, formVars, requests>>

\* A reset that takes the title alone from the fetched event.
ResetValues_TitleOnly(eventData) ==
    [ title |-> eventData.title, description |-> "", location |-> "",
      isMultiDay |-> FALSE, startDate |-> "", endDate |-> "", startTime |-> "",
      endTime |-> "", color |-> "#3B82F6", coverImage |-> "", participants |-> <<>> ]

\* The values the effect of EventForm passes to reset(): each field of the
\* fetched event, the dates cut to their first ten characters, and the
\* fixed default for a field the event does not have.
ResetValues(eventData) ==
    LET has(f) == f \in DOMAIN eventData
        slice(str) == SubSeq(str, 1, IF Len(str) < 10 THEN Len(str) ELSE 10)
    IN  [ title |-> IF has("title") THEN eventData.title ELSE <<>>,
          description |-> IF has("description") THEN eventData.description ELSE "",
          location |-> IF has("location") THEN eventData.location ELSE "",
          isMultiDay |-> IF has("isMultiDay") THEN eventData.isMultiDay ELSE FALSE,
          startDate |-> IF has("startDate") THEN slice(eventData.startDate) ELSE "",
          endDate |-> IF has("endDate") THEN slice(eventData.endDate) ELSE "",
          startTime |-> IF has("startTime") THEN eventData.startTime ELSE "",
          endTime |-> IF has("endTime") THEN eventData.endTime ELSE "",
          color |-> IF has("color") THEN eventData.color ELSE "#3B82F6",
          coverImage |-> IF has("coverImage") THEN eventData.coverImage ELSE "",
          participants |-> IF has("participants") THEN eventData.participants ELSE <<>> ]

\* The queryFn of a query in flight returns, finds no row, or fails.  The
\* query's observer then runs its callbacks: those of useMembers write the
\* member store ("http"), call fetchMembers ("http-refetch"), or call a
\* setState that the store's state does not have ("supabase").  An EventForm
\* in edit mode that observes the query is rendered with the new data, and
\* its effect resets the form.
FetchSettles ==
    \E e \in cache, outcome \in {"success", "notFound", "error"} :
        LET fn == queryFn(e.key, e.params)
            observed == /\ e.key.scope = "members"
                        /\ views.members = [ mounted |-> TRUE, eventId |-> e.key.args.eventId ]
        IN  /\ e.fetchStatus = "fetching"
            /\ outcome = "success" => fn.found
            /\ outcome = "notFound" => ~fn.found
            /\ cache' = (cache \ {e})
                        \cup { IF outcome = "success"
                               THEN [ e EXCEPT !.fetchStatus = "idle", !.isInvalidated = FALSE,
                                               !.status = "success", !.data = fn.data ]
                               ELSE [ e EXCEPT !.fetchStatus = "idle", !.status = "error" ] }
            /\ memberStore' =
                   IF ~observed \/ memberModule = "supabase"
                   THEN memberStore
                   ELSE IF memberModule = "http"
                   THEN IF outcome = "success"
                        THEN [ memberStore EXCEPT !.members = fn.data.members,
                                                  !.isLoading = FALSE, !.isError = FALSE ]
                        ELSE [ memberStore EXCEPT !.isError = TRUE, !.isLoading = FALSE ]
                   ELSE IF outcome = "success"
                   THEN [ memberStore EXCEPT
                            !.isLoading = TRUE, !.isError = FALSE,
                            !.inFlight = memberStore.inFlight \cup {e.key.args.eventId} ]
                   ELSE memberStore
            /\ remoteReads' =
                   IF observed /\ memberModule = "http-refetch" /\ outcome = "success"
                   THEN remoteReads \cup { [ scope |-> "members", id |-> e.key.args.eventId ] }
                   ELSE remoteReads
            /\ views' = IF views.taskList
                        THEN [ views EXCEPT !.previousData =
                                 Shown(cache', TaskListKey(taskStore), @) ]
                        ELSE views
            /\ eventForm' =
                   IF /\ outcome = "success"
                      /\ eventForm.mounted
                      /\ eventForm.props.mode = "edit"
                      /\ e.key = EventKey(eventForm.props.eventId)
                      /\ fn.data # e.data
                   THEN [ eventForm EXCEPT !.values = ResetValues(fn.data),
                                           !.errors = {},
                                           !.isSubmitting = FALSE ]
                   ELSE eventForm
            /\ op' = "query." \o outcome
            /\ UNCHANGED <<uiVars, storeVars, envVars, remoteEvents, memberModule, remoteTasks,
                           schemaVars, taskForm, requests, fetchCount, lastFetch>>

\* The response to a fetchMembers(eventId) in flight arrives: the store
\* takes the members, or flags the error.
FetchMembersSettles ==
    \E eventId \in memberStore.inFlight, ok \in BOOLEAN :
        /\ memberStore' =
               IF ok
               THEN [ memberStore EXCEPT
                        !.members = queryFn(MembersKey(eventId), [ eventId |-> eventId ]).data.members,
                        !.isLoading = FALSE,
                        !.inFlight = memberStore.inFlight \ {eventId} ]
               ELSE [ memberStore EXCEPT !.isError = TRUE, !.isLoading = FALSE,
                                         !.inFlight = memberStore.inFlight \ {eventId} ]
        /\ op' = IF ok THEN "fetchMembers.success" ELSE "fetchMembers.error"
        /\ UNCHANGED <<uiVars, storeVars, envVars, remoteEvents, remoteReads, memberModule,
                       remoteTasks, schemaVars, formVars, requests, queryVars>>

(***************************************************************************)
(* Store setters.  A set() re-renders the mounted list view, whose query   *)
(* hook then runs with the key of the new state.                           *)
(***************************************************************************)
TaskStoreSet(partial, name) ==
    /\ taskStore' = Merge(taskStore, partial)
    /\ QuerySet(Rerender(QueryNow, views.taskList, TaskListKey(taskStore),
                         TaskListKey(Merge(taskStore, partial)),
                         TaskListParams(Merge(taskStore, partial))))
    /\ views' = IF views.taskList
                THEN [ views EXCEPT !.previousData =
                         Shown(cache, TaskListKey(Merge(taskStore, partial)), @) ]
                ELSE views
    /\ op' = name
    /\ UiStep
    /\ UNCHANGED <<ui, storage, eventStore, envVars, memberVars, remoteTasks, schemaVars, formVars, requests>>

EventStoreSet(partial, name) ==
    /\ eventStore' = Merge(eventStore, partial)
    /\ QuerySet(Rerender(QueryNow, views.eventList, EventListKey(eventStore, eventModule),
                         EventListKey(Merge(eventStore, partial), eventModule),
                         EventListParams(Merge(eventStore, partial), eventModule)))
    /\ op' = name
    /\ UiStep
    /\ UNCHANGED <<ui, storage, taskStore, envVars, memberVars, remoteTasks, schemaVars, formVars, requests, views>>

setSelectedTaskId ==
    \E id \in TaskIds \cup {NULL} : TaskStoreSet([selectedTaskId |-> id], "setSelectedTaskId")

setTotalCount ==
    \E n \in {0, 3} : TaskStoreSet([totalCount |-> n], "setTotalCount")

setShowingCount ==
    \E n \in {0, 3} : TaskStoreSet([showingCount |-> n], "setShowingCount")

setTaskSearchKeyword ==
    \E s \in {"", "crew", "c_ew"} : TaskStoreSet([searchKeyword |-> s], "task.setSearchKeyword")

setQuickFilter ==
    \E f \in {"Due Date", "Priority"} : TaskStoreSet([quickFilter |-> f], "task.setQuickFilter")

setTaskSortBy ==
    \E s \in {"Due Date (Earliest)", "Name (A-Z)"} :
        TaskStoreSet([taskSortBy |-> s], "task.setTaskSortBy")

setTaskSortDirection ==
    \E d \in SortDirections : TaskStoreSet([taskSortDirection |-> d], "task.setTaskSortDirection")

setViewMode ==
    \E m \in {"List View", "Board View"} : TaskStoreSet([viewMode |-> m], "task.setViewMode")

setFilterByStatus ==
    \E s \in { <<"To Do", "In Progress", "Done">>, <<"Done">>, <<>> } :
        TaskStoreSet([filterByStatus |-> s], "task.setFilterByStatus")

setFilterByPriority ==
    \E p \in { <<"Urgent", "High", "Normal", "Low">>, <<"Urgent">> } :
        TaskStoreSet([filterByPriority |-> p], "task.setFilterByPriority")

setShowCompletedTasks ==
    \E b \in BOOLEAN : TaskStoreSet([showCompletedTasks |-> b], "task.setShowCompletedTasks")

setShowPersonalTasks ==
    \E b \in BOOLEAN : TaskStoreSet([showPersonalTasks |-> b], "task.setShowPersonalTasks")

setTaskFilters ==
    \E partial \in { [searchKeyword |-> "crew", showCompletedTasks |-> FALSE],
                     [viewMode |-> "Board View"] } :
        TaskStoreSet(partial, "task.setTaskFilters")

setSelectedEventId ==
    \E id \in EventIds \cup {NULL} : EventStoreSet([selectedEventId |-> id], "setSelectedEventId")

setEventSearchKeyword ==
    \E keyword \in {"", "launch"} :
        EventStoreSet([searchKeyword |-> keyword], "event.setSearchKeyword")

setEventSortBy ==
    \E sort \in {"title"} : EventStoreSet([eventSortBy |-> sort], "event.setEventSortBy")

setEventSortDirection ==
    \E dir \in SortDirections :
        EventStoreSet([eventSortDirection |-> dir], "event.setEventSortDirection")

setEventFilters ==
    \E filters \in { [filterByDate |-> <<"This Week">>],
                     [filterByProgress |-> <<"Completed">>],
                     [searchKeyword |-> "launch", eventSortDirection |-> "desc"] } :
        EventStoreSet(filters, "event.setEventFilters")

(***************************************************************************)
(* EventForm.tsx: the schema the form's resolver validates with.           *)
(***************************************************************************)
\* title: .max(100, "Title too long")
MaxTitleLength == 100

\* Minutes into the day of an "HH:mm" string.
TimeMinutes(time) ==
    CASE time = "09:00" -> 540
      [] time = "10:00" -> 600
      [] time = "11:00" -> 660

\* A refinement that demands an end date strictly after the start date.
EventEndDateOk_Strict(data) ==
    IF data.isMultiDay /\ ~Falsy(data.endDate)
    THEN ~Falsy(data.startDate) /\ DateInstant(data.endDate) > DateInstant(data.startDate)
    ELSE TRUE

\* The refinement of eventSchema:
\* isMultiDay && endDate ? new Date(endDate) >= new Date(startDate) : true,
\* the comparison being false when startDate ("") is no date.
EventEndDateOk(data) ==
    IF data.isMultiDay /\ ~Falsy(data.endDate)
    THEN ~Falsy(data.startDate) /\ DateInstant(data.endDate) >= DateInstant(data.startDate)
    ELSE TRUE

EventFieldIssues(data) ==
    (IF Len(data.title) < 1
     THEN { Issue(<<"title">>, "Please fill out this field") } ELSE {})
    \cup (IF Len(data.title) > MaxTitleLength
          THEN { Issue(<<"title">>, "Title too long") } ELSE {})
    \cup (IF data.startDate = ""
          THEN { Issue(<<"startDate">>, "Start date is required") } ELSE {})
    \cup (IF data.startTime = ""
          THEN { Issue(<<"startTime">>, "Start time is required") } ELSE {})
    \cup (IF data.endTime = ""
          THEN { Issue(<<"endTime">>, "End time is required") } ELSE {})

\* eventSchema.parse(values) as EventForm.tsx defines it.
eventSchema(values) ==
    LET issues ==
            EventFieldIssues(values)
            \cup (IF EventEndDateOk(values)
                  THEN {}
                  ELSE { Issue(<<"endDate">>, "End date must be start date or later") })
    IN  IF issues # {}
        THEN [ outcome |-> "invalid", issues |-> issues, data |-> values ]
        ELSE [ outcome |-> "valid", issues |-> {}, data |-> values ]

(***************************************************************************)
(* The remote collaborator and the mutation hooks.                         *)
(***************************************************************************)
\* Bound on the number of mutation requests in a session.
MaxRequests == 2

\* mutateAsync()/mutate(): the mutationFn sends its request.
Mutate(reqs, entity, kind, payload, origin) ==
    Append(reqs, [ entity |-> entity, kind |-> kind, payload |-> payload,
                   sender |-> origin, origin |-> origin, status |-> "pending",
                   toasts |-> <<>> ])

\* Settled requests that notify nobody.
Toasts_Silent(r, outcome) == <<>>

\* The toasts the settling of request r raises: the one of the hook's
\* onSuccess/onError, then the one of the onSubmit of the form that sent r,
\* whose continuation runs whether or not the form is still rendered.
Toasts(r, outcome) ==
    LET verb == CASE r.kind = "create" -> "create"
                  [] r.kind = "delete" -> "delete"
                  [] OTHER -> "update"
        hook == IF outcome = "error"
                THEN "Failed to " \o verb \o " " \o r.entity
                     \o (IF r.kind = "markComplete" THEN " status" ELSE "")
                ELSE IF r.entity = "task"
                THEN "Task " \o (IF r.kind = "markComplete" THEN "status updated"
                                 ELSE verb \o "d")
                ELSE IF r.kind = "delete" THEN "Event deleted!"
                ELSE "Event " \o verb \o "d successfully!"
        form == IF outcome = "error"
                THEN "Failed to save " \o r.entity
                ELSE (IF r.entity = "task" THEN "Task " ELSE "Event ")
                     \o verb \o "d successfully"
    IN  << [ type |-> outcome, message |-> hook ] >>
        \o (IF r.sender = "hook" THEN <<>>
            ELSE << [ type |-> outcome, message |-> form ] >>)

\* Requests whose form has unmounted: the hook's callbacks still run when
\* they settle, the form's continuation has no form left to act on.
Detached(reqs) ==
    [ i \in DOMAIN reqs |->
        IF reqs[i].status = "pending" THEN [ reqs[i] EXCEPT !.origin = "hook" ] ELSE reqs[i] ]

\* A form that is not rendered.
NoForm == [ mounted |-> FALSE ]

\* closeAllModals() and its consequence for the forms: the modal host
\* renders a form only while the form's flag is set.
CloseModals(reqs) ==
    /\ ui' = closeAllModals(ui)
    /\ storage' = partialize(closeAllModals(ui))
    /\ taskForm' = NoForm
    /\ eventForm' = NoForm
    /\ requests' = Detached(reqs)

\* A mutation hook that marks the cached queries stale when it is called.
HookMutate_Optimistic(entity, kind, payload) ==
    /\ Len(requests) < MaxRequests
    /\ requests' = Mutate(requests, entity, kind, payload, "hook")
    /\ cache' = { [ e EXCEPT !.isInvalidated = TRUE ] : e \in cache }
    /\ op' = entity \o "." \o kind
    /\ UiStep
    /\ UNCHANGED <<ui, storage, storeVars, envVars, memberVars, remoteTasks, schemaVars, formVars,
                   views, fetchCount, lastFetch>>

\* A call of a mutation hook from a view: one request to the remote side.
HookMutate(entity, kind, payload) ==
    /\ Len(requests) < MaxRequests
    /\ requests' = Mutate(requests, entity, kind, payload, "hook")
    /\ op' = entity \o "." \o kind
    /\ UiStep
    /\ UNCHANGED <<ui, storage, storeVars, envVars, memberVars, remoteTasks, schemaVars, formVars, queryVars>>

CreateTask ==
    HookMutate("task", "create", [ title |-> <<"B">>, assignees |-> <<"u2">> ])

UpdateTask ==
    \E id \in TaskIds :
        HookMutate("task", "update", [ id |-> id, data |-> [ title |-> <<"B">> ] ])

DeleteTask ==
    \E id \in TaskIds : HookMutate("task", "delete", [ id |-> id ])

\* useMarkTaskComplete that resets progress when un-completing.
MarkTaskComplete_ResetsProgress ==
    \E id \in TaskIds, completed \in BOOLEAN :
        HookMutate("task", "markComplete",
                   [ id |-> id,
                     completed |-> completed,
                     data |-> [ status |-> IF completed THEN "Done" ELSE "In Progress",
                                progress |-> IF completed THEN 100 ELSE 0 ] ])

MarkTaskComplete ==
    \E id \in TaskIds, completed \in BOOLEAN :
        HookMutate("task", "markComplete",
                   [ id |-> id,
                     completed |-> completed,
                     data |-> [ status |-> IF completed THEN "Done" ELSE "In Progress",
                                progress |-> IF completed THEN 100 ELSE UNDEFINED ] ])

CreateEvent ==
    HookMutate("event", "create", [ title |-> <<"E">> ])

UpdateEvent ==
    \E id \in EventIds :
        HookMutate("event", "update", [ id |-> id, data |-> [ title |-> <<"E">> ] ])

DeleteEvent ==
    \E id \in EventIds : HookMutate("event", "delete", [ id |-> id ])

\* The query-key prefix a mutation hook of `entity` invalidates.
InvalidatedScope(entity) == IF entity = "task" THEN "tasks" ELSE "events"

\* The body of an update request: JSON leaves out the properties whose value
\* is undefined.
Serialize(data) ==
    [ f \in { k \in DOMAIN data : ToString(data[k]) # ToString(UNDEFINED) } |-> data[f] ]

\* update(...).eq("id", id).select().single() succeeds only on a row that
\* exists.
RemoteAccepts(rows, r) ==
    (r.entity = "task" /\ r.kind \in {"update", "markComplete"})
    => rows[r.payload.id] # NoRow

\* A tasks table in which every update also completes the task a little more.
RemoteApply_Accumulates(rows, r) ==
    IF r.entity = "task" /\ r.kind \in {"update", "markComplete"}
    THEN [ rows EXCEPT ![r.payload.id].progress = IF @ < 100 THEN @ + 30 ELSE @ ]
    ELSE rows

\* What a successful request made of the tasks table: an update replaces
\* the fields its body provides and no others, a delete removes the row.
\* Rows under other ids than TaskIds, created ones included, are not
\* followed.
RemoteApply(rows, r) ==
    IF r.entity = "task" /\ r.kind \in {"update", "markComplete"}
    THEN LET row == rows[r.payload.id]
             body == Serialize(r.payload.data)
         IN  [ rows EXCEPT ![r.payload.id] =
                 [ f \in DOMAIN row \cup DOMAIN body |->
                     IF f \in DOMAIN body THEN body[f] ELSE row[f] ] ]
    ELSE IF r.entity = "task" /\ r.kind = "delete"
    THEN [ rows EXCEPT ![r.payload.id] = NoRow ]
    ELSE rows

\* A success closing the modals only from the onSubmit that awaited it.
ClosesModals_OnlyAwaited(r) == r.origin # "hook"

\* Every success closing the modals.
ClosesModals_Always(r) == TRUE

\* Whether the success of request r ends in closeModal(): the onSuccess of
\* the create and update hooks calls it, and so does the onSubmit of the
\* form that awaited r.
ClosesModals(r) == r.kind \in {"create", "update"} \/ r.origin # "hook"

\* A request succeeds.  The hook's onSuccess invalidates the entity's list
\* queries and, for create and update, closes the modals; the continuation
\* of a form's onSubmit then closes them as well.
MutationSucceeds ==
    \E i \in DOMAIN requests :
        LET r == requests[i]
            settled == [ requests EXCEPT ![i].status = "success",
                                         ![i].toasts = Toasts(r, "success") ]
        IN  /\ r.status = "pending"
            /\ RemoteAccepts(remoteTasks, r)
            /\ QuerySet(invalidateQueries(
                   QueryNow, InvalidatedScope(r.entity), ActiveKeys,
                   IF r.entity = "task"
                   THEN TaskListParams(taskStore)
                   ELSE EventListParams(eventStore, eventModule)))
            /\ IF ClosesModals(r)
               THEN CloseModals(settled)
               ELSE /\ requests' = settled
                    /\ UNCHANGED <<ui, storage, formVars>>
            /\ remoteTasks' = RemoteApply(remoteTasks, r)
            /\ op' = r.entity \o "." \o r.kind \o ".success"
            /\ UNCHANGED <<uiSteps, storeVars, envVars, memberVars, schemaVars, views>>

\* A request fails.  The hook's onError and the catch of a form's onSubmit
\* only notify; the submitting form becomes idle again.
MutationFails ==
    \E i \in DOMAIN requests :
        LET r == requests[i]
        IN  /\ r.status = "pending"
            /\ requests' = [ requests EXCEPT ![i].status = "error",
                                             ![i].toasts = Toasts(r, "error") ]
            /\ taskForm' = IF r.origin = "taskForm"
                           THEN [ taskForm EXCEPT !.isSubmitting = FALSE ]
                           ELSE taskForm
            /\ eventForm' = IF r.origin = "eventForm"
                            THEN [ eventForm EXCEPT !.isSubmitting = FALSE ]
                            ELSE eventForm
            /\ op' = r.entity \o "." \o r.kind \o ".error"
            /\ UNCHANGED <<uiVars, storeVars, envVars, memberVars, remoteTasks, schemaVars, queryVars>>

(***************************************************************************)
(* TaskForm.tsx                                                            *)
(***************************************************************************)

\* The longest session with the forms that is explored.
MaxFormSteps == 4

\* One more user-driven step on a form within that bound.
FormStep ==
    /\ uiSteps < MaxFormSteps
    /\ uiSteps' = uiSteps + 1

\* handleSubmit runs onSubmit only when the resolver reported the input valid.
RunsOnSubmit(result) == result.outcome = "valid"

\* The props a TaskForm is rendered with.
TaskFormProps ==
    { p \in [ mode : {"create", "edit"},
              taskId : {UNDEFINED} \cup TaskIds,
              eventId : {UNDEFINED} \cup EventIds ] :
        p.mode = "create" => p.taskId = UNDEFINED }

\* defaultValues of TaskForm's useForm.
TaskFormDefaults(eventId) ==
    [ title |-> <<>>,
      description |-> "",
      priority |-> "Normal",
      status |-> "To Do",
      dueDate |-> "",
      assignees |-> <<>>,
      relatedEventName |-> "",
      isPersonal |-> Falsy(eventId),
      isScheduled |-> FALSE,
      scheduleStart |-> "",
      scheduleEnd |-> "",
      subtasks |-> <<>>,
      attachments |-> <<>> ]

\* What a user may have entered in the TaskForm.
TaskFormInputs ==
    [ title : { <<>>, <<"B">> },
      description : {""},
      priority : {"High"},
      status : {"To Do"},
      dueDate : {""},
      assignees : { <<>>, <<"u2">> },
      relatedEventName : {""},
      isPersonal : BOOLEAN,
      isScheduled : BOOLEAN,
      scheduleStart : {"2025-11-01T10:00"},
      scheduleEnd : {"2025-11-01T09:00"},
      subtasks : { <<>> },
      attachments : { <<>> } ]

\* The user opens the task modal: openTaskForm() sets the flag, and the modal
\* host renders a TaskForm.
ShowTaskForm ==
    \E props \in TaskFormProps :
        /\ ~ui.isTaskFormOpen
        /\ UiSet(Merge(ui, [ isTaskFormOpen |-> TRUE,
                             currentTaskId |->
                                 IF props.taskId = UNDEFINED THEN NULL ELSE props.taskId ]),
                 "openTaskForm")
        /\ taskForm' = [ mounted |-> TRUE,
                         props |-> props,
                         values |-> TaskFormDefaults(props.eventId),
                         errors |-> {},
                         isSubmitting |-> FALSE ]
        /\ FormStep
        /\ UNCHANGED <<storeVars, envVars, memberVars, remoteTasks, schemaVars, eventForm, requests, queryVars>>

\* The user fills in the fields of the TaskForm; none is ever disabled.
EditTaskForm ==
    \E values \in TaskFormInputs :
        /\ taskForm.mounted
        /\ taskForm' = [ taskForm EXCEPT !.values = values ]
        /\ op' = "TaskForm.edit"
        /\ FormStep
        /\ UNCHANGED <<ui, storage, storeVars, envVars, memberVars, remoteTasks, schemaVars, eventForm, requests,
                       queryVars>>

\* The data onSubmit hands the mutation: a personal task, or one without an
\* event, is assigned to the current user only.
TaskPayload(data, props, userId) ==
    IF data.isPersonal \/ Falsy(props.eventId)
    THEN [ data EXCEPT !.assignees = IF Falsy(userId) THEN <<>> ELSE <<userId>> ]
    ELSE data

\* handleSubmit(onSubmit) of the TaskForm, up to the first await of onSubmit.
SubmitTaskForm ==
    LET result == taskSchema(taskForm.values, now, refineCtx)
        props == taskForm.props
        payload == TaskPayload(result.data, props, currentUserId)
    IN  /\ taskForm.mounted
        /\ ~taskForm.isSubmitting
        /\ Len(requests) < MaxRequests
        /\ op' = "TaskForm.submit"
        /\ FormStep
        /\ IF result.outcome = "threw"
           THEN /\ taskForm' = [ taskForm EXCEPT !.isSubmitting = TRUE ]
                /\ UNCHANGED <<ui, storage, eventForm, requests>>
           ELSE IF ~RunsOnSubmit(result)
           THEN /\ taskForm' = [ taskForm EXCEPT !.errors = result.issues ]
                /\ UNCHANGED <<ui, storage, eventForm, requests>>
           ELSE IF props.mode = "create"
           THEN /\ requests' = Mutate(requests, "task", "create", payload, "taskForm")
                /\ taskForm' = [ taskForm EXCEPT !.errors = {}, !.isSubmitting = TRUE ]
                /\ UNCHANGED <<ui, storage, eventForm>>
           ELSE IF props.mode = "edit" /\ ~Falsy(props.taskId)
           THEN /\ requests' = Mutate(requests, "task", "update",
                                      [ id |-> props.taskId, data |-> payload ], "taskForm")
                /\ taskForm' = [ taskForm EXCEPT !.errors = {}, !.isSubmitting = TRUE ]
                /\ UNCHANGED <<ui, storage, eventForm>>
           ELSE CloseModals(requests)
        /\ UNCHANGED <<storeVars, envVars, memberVars, remoteTasks, schemaVars, queryVars>>

\* The Cancel button of the TaskForm: closeModal, in every state of the form.
CancelTaskForm ==
    /\ taskForm.mounted
    /\ CloseModals(requests)
    /\ op' = "TaskForm.cancel"
    /\ FormStep
    /\ UNCHANGED <<storeVars, envVars, memberVars, remoteTasks, schemaVars, queryVars>>

(***************************************************************************)
(* EventForm.tsx                                                           *)
(***************************************************************************)
\* The props an EventForm is rendered with.
EventFormProps ==
    { p \in [ mode : {"create", "edit"}, eventId : {NULL} \cup EventIds ] :
        p.mode = "create" => p.eventId = NULL }

\* defaultValues of EventForm's useForm.
EventFormDefaults ==
    [ title |-> <<>>,
      description |-> "",
      location |-> "",
      isMultiDay |-> FALSE,
      startDate |-> "",
      endDate |-> "",
      startTime |-> "",
      endTime |-> "",
      color |-> "#3B82F6",
      coverImage |-> "",
      participants |-> <<>> ]

\* A title one character longer than the schema allows.
LongTitle == [ i \in 1..(MaxTitleLength + 1) |-> "x" ]

\* What a user may have entered in the EventForm.
EventFormInputs ==
    [ title : { <<>>, <<"E">>, LongTitle },
      description : {""},
      location : {""},
      isMultiDay : BOOLEAN,
      startDate : {"2025-11-01"},
      endDate : {"", "2025-10-31", "2025-11-01"},
      startTime : {"10:00"},
      endTime : {"09:00", "11:00"},
      color : {"#3B82F6"},
      coverImage : {""},
      participants : { <<>> } ]

\* An EventForm whose controls stay enabled while it submits.
EventFormDisabled_Never == FALSE

\* isDisabled of the EventForm.
EventFormDisabled ==
    \/ eventForm.isSubmitting
    \/ \E i \in DOMAIN requests :
           requests[i].origin = "eventForm" /\ requests[i].status = "pending"

\* The fields of the EventForm that carry no disabled attribute.
NeverDisabled == {"isMultiDay", "participants"}

\* The user opens the event modal: openEventForm() sets the flag, and the
\* modal host renders an EventForm, whose useFetchEvent(eventId) subscribes
\* to the event's query unless the id is missing.  If the cache holds the
\* event already, the form's effect resets the form to it at once.
ShowEventForm ==
    \E props \in EventFormProps :
        LET key == EventKey(props.eventId)
            cached == { e \in cache : e.key = key /\ e.data # [ undefined |-> TRUE ] }
        IN  /\ ~ui.isEventFormOpen
            /\ UiSet(Merge(ui, [ isEventFormOpen |-> TRUE, currentEventId |-> props.eventId ]),
                     "openEventForm")
            /\ eventForm' = [ mounted |-> TRUE,
                              props |-> props,
                              values |-> IF props.mode = "edit" /\ cached # {}
                                         THEN ResetValues((CHOOSE e \in cached : TRUE).data)
                                         ELSE EventFormDefaults,
                              errors |-> {},
                              isSubmitting |-> FALSE ]
            /\ IF Enabled(props.eventId)
               THEN /\ QuerySet(Observe(QueryNow, key, [ eventId |-> props.eventId ]))
                    /\ remoteReads' =
                           IF Fetching(cache, key)
                           THEN remoteReads
                           ELSE remoteReads
                                \cup queryFn(key, [ eventId |-> props.eventId ]).reads
               ELSE UNCHANGED <<cache, fetchCount, lastFetch, remoteReads>>
            /\ FormStep
            /\ UNCHANGED <<storeVars, envVars, remoteEvents, memberStore, memberModule,
                           remoteTasks, schemaVars, taskForm, requests, views>>

\* The user fills in the fields of the EventForm that are enabled.
EditEventForm ==
    \E values \in EventFormInputs :
        /\ eventForm.mounted
        /\ EventFormDisabled =>
               \A f \in DOMAIN values \ NeverDisabled : values[f] = eventForm.values[f]
        /\ eventForm' = [ eventForm EXCEPT !.values = values ]
        /\ op' = "EventForm.edit"
        /\ FormStep
        /\ UNCHANGED <<ui, storage, storeVars, envVars, memberVars, remoteTasks, schemaVars, taskForm, requests,
                       queryVars>>

\* handleSubmit(onSubmit) of the EventForm, up to the await of onSubmit.
SubmitEventForm ==
    LET result == eventSchema(eventForm.values)
        props == eventForm.props
    IN  /\ eventForm.mounted
        /\ ~EventFormDisabled
        /\ Len(requests) < MaxRequests
        /\ op' = "EventForm.submit"
        /\ FormStep
        /\ IF ~RunsOnSubmit(result)
           THEN /\ eventForm' = [ eventForm EXCEPT !.errors = result.issues ]
                /\ UNCHANGED requests
           ELSE /\ requests' =
                       IF props.mode = "edit" /\ ~Falsy(props.eventId)
                       THEN Mutate(requests, "event", "update",
                                   [ id |-> props.eventId, data |-> result.data ],
                                   "eventForm")
                       ELSE Mutate(requests, "event", "create", result.data, "eventForm")
                /\ eventForm' = [ eventForm EXCEPT !.errors = {}, !.isSubmitting = TRUE ]
        /\ UNCHANGED <<ui, storage, storeVars, envVars, memberVars, remoteTasks, schemaVars, taskForm, queryVars>>

\* The Cancel button of the EventForm: closeModal, unless the form is disabled.
CancelEventForm ==
    /\ eventForm.mounted
    /\ ~EventFormDisabled
    /\ CloseModals(requests)
    /\ op' = "EventForm.cancel"
    /\ FormStep
    /\ UNCHANGED <<storeVars, envVars, memberVars, remoteTasks, schemaVars, queryVars>>


\* Another client changes the title of an event at the remote side.
RemoteEventChanges ==
    \E id \in EventIds :
        /\ remoteEvents[id] # NoRow
        /\ remoteEvents[id].title # <<"F">>
        /\ remoteEvents' = [ remoteEvents EXCEPT ![id].title = <<"F">> ]
        /\ op' = "remote.event.changed"
        /\ UNCHANGED <<uiVars, storeVars, envVars, remoteReads, memberStore, memberModule,
                       remoteTasks, schemaVars, formVars, requests, queryVars>>

\* The query client fetches the event query the rendered EventForm observes
\* once more (the window regains focus, the network reconnects, or the
\* query is invalidated).
RefetchEvent ==
    LET id == eventForm.props.eventId
        observed == { e \in cache : e.key = EventKey(id) /\ e.fetchStatus = "idle" }
    IN  /\ eventForm.mounted
        /\ Enabled(id)
        /\ observed # {}
        /\ QuerySet(Observe(QueryNow, EventKey(id), [ eventId |-> id ]))
        /\ remoteReads' = remoteReads \cup queryFn(EventKey(id), [ eventId |-> id ]).reads
        /\ op' = "refetch"
        /\ FormStep
        /\ UNCHANGED <<ui, storage, storeVars, envVars, remoteEvents, memberStore, memberModule,
                       remoteTasks, schemaVars, formVars, requests, views>>
(***************************************************************************)
(* Page reload: every in-memory store, form and cache is constructed anew; *)
(* the UI store is rehydrated from localStorage.  Requests in flight lose  *)
(* the page that would have handled their outcome.                         *)
(***************************************************************************)
Reload ==
    /\ ui' = hydrate(storage)
    /\ storage' = partialize(hydrate(storage))
    /\ taskStore' = InitialTaskStore
    /\ eventStore' = InitialEventStore(eventModule)
    /\ taskForm' = NoForm
    /\ eventForm' = NoForm
    /\ requests' = [ i \in DOMAIN requests |->
                       IF requests[i].status = "pending"
                       THEN [ requests[i] EXCEPT !.status = "orphaned" ]
                       ELSE requests[i] ]
    /\ cache' = {}
    /\ views' = NoViews
    /\ op' = "reload"
    /\ UiStep
    /\ UNCHANGED <<envVars, memberVars, remoteTasks, schemaVars, fetchCount, lastFetch>>

\* A row of the tasks table.
StoredTask ==
    [ title |-> <<"A">>, status |-> "To Do", priority |-> "Normal", isPersonal |-> FALSE,
      progress |-> 40 ]

\* No schema has been handed anything.
NoSchemaCall == [schema |-> "none"]

\* The program state once the stores are constructed.
Constructed ==
    /\ ui = hydrate(partialize(InitialUiState))
    /\ storage = partialize(InitialUiState)
    /\ taskStore = InitialTaskStore
    /\ eventModule \in EventModules
    /\ eventStore = InitialEventStore(eventModule)
    /\ taskForm = NoForm
    /\ eventForm = NoForm
    /\ requests = <<>>
    /\ remoteTasks \in [ TaskIds -> [ title : { <<"A">>, <<"C", "r", "e", "w">> },
                                       status : {"To Do", "Done"},
                                       priority : {"Normal", "Urgent"},
                                       isPersonal : BOOLEAN,
                                       progress : {40, 100} ] ]
    /\ remoteEvents \in
           [ EventIds ->
               { [ title |-> <<"E">>, description |-> "d", location |-> "l",
                   isMultiDay |-> TRUE, startDate |-> "2025-11-01T00:00:00Z",
                   endDate |-> "2025-11-02T00:00:00Z", startTime |-> "09:00",
                   endTime |-> "10:00", color |-> "#FF0000", coverImage |-> "c",
                   participants |-> <<"m1">> ],
                 [ title |-> <<"E">>, startDate |-> "2025-11-01", startTime |-> "09:00",
                   endTime |-> "10:00" ],
                 NoRow } ]
    /\ remoteReads = {}
    /\ memberStore = [ members |-> <<>>, isLoading |-> FALSE, isError |-> FALSE,
                       inFlight |-> {} ]
    /\ memberModule \in {"supabase", "http", "http-refetch"}
    /\ cache = {}
    /\ views = NoViews
    /\ fetchCount = 0
    /\ lastFetch = [ scope |-> "none" ]
    /\ op = "init"

\* The stores on their own: no form is rendered, no schema is called.
Init ==
    /\ Constructed
    /\ uiSteps = 0
    /\ remoteEvents = [ id \in EventIds |-> NoRow ]
    /\ memberModule = "supabase"
    /\ remoteTasks = [ id \in TaskIds |-> StoredTask ]
    /\ now = DateInstant("2025-11-01")
    /\ refineCtx = "undefined"
    /\ currentUserId = "u1"
    /\ schemaIn = NoSchemaCall
    /\ schemaOut = NoSchemaCall

SpecUi ==
    Init /\ [][ \/ openEventForm
                \/ openTaskForm
                \/ CloseAllModals
                \/ toggleCustomizeDashboard
                \/ toggleFilterPanel
                \/ toggleUserSettings
                \/ setTaskFilterStatus
                \/ setUiTaskSortBy
                \/ setUiTaskSortDirection
                \/ clearAdvancedFilters
                \/ setAdvancedFilters
                \/ setUiShowCompletedTasks
                \/ setUiShowPersonalTasks
                \/ setTheme
                \/ toggleSidebar
                \/ setCurrentEventId
                \/ setCurrentTaskId
                \/ setDashboardWidgetState
                \/ setUiViewMode
                \/ setSelectedTaskId
                \/ setSelectedEventId
                \/ setTotalCount
                \/ setShowingCount
                \/ setTaskFilters
                \/ setEventFilters
                \/ Reload ]_vars

\* The modal actions of the UI store alone.
SpecModals ==
    Init /\ [][ \/ openEventForm
                \/ openTaskForm
                \/ CloseAllModals
                \/ toggleCustomizeDashboard
                \/ toggleFilterPanel
                \/ toggleUserSettings ]_vars

\* taskSchema applied to one input.
ParseTask ==
    /\ schemaIn.schema = "task"
    /\ schemaOut = NoSchemaCall
    /\ schemaOut' = taskSchema(schemaIn.values, now, refineCtx)
    /\ op' = "taskSchema.parse"
    /\ UNCHANGED <<uiVars, storeVars, envVars, memberVars, remoteTasks, schemaIn, formVars, requests, queryVars>>

InitTaskSchemaState ==
    /\ Constructed
    /\ uiSteps = 0
    /\ remoteEvents = [ id \in EventIds |-> NoRow ]
    /\ memberModule = "supabase"
    /\ remoteTasks = [ id \in TaskIds |-> StoredTask ]
    /\ eventModule = "http"
    /\ now \in Nows
    /\ refineCtx \in RefineCtxs
    /\ currentUserId = "u1"
    /\ schemaIn \in [ schema : {"task"}, values : TaskInputs ]
    /\ schemaOut = NoSchemaCall

SpecTaskSchema == InitTaskSchemaState /\ [][ParseTask]_vars

\* The forms in use: the clock, the schema library's refine() contract and
\* the signed-in user are whatever the deployment has.
InitForms ==
    /\ Constructed
    /\ uiSteps = 0
    /\ remoteEvents = [ id \in EventIds |-> NoRow ]
    /\ memberModule = "supabase"
    /\ remoteTasks = [ id \in TaskIds |-> StoredTask ]
    /\ eventModule = "http"
    /\ now = DateInstant("2025-11-01")
    /\ refineCtx \in RefineCtxs
    /\ currentUserId \in {"u1", UNDEFINED}
    /\ schemaIn = NoSchemaCall
    /\ schemaOut = NoSchemaCall

SpecForms ==
    InitForms /\ [][ \/ MountTaskList
                     \/ FetchSettles
                     \/ ShowTaskForm
                     \/ EditTaskForm
                     \/ SubmitTaskForm
                     \/ CancelTaskForm
                     \/ ShowEventForm
                     \/ EditEventForm
                     \/ SubmitEventForm
                     \/ CancelEventForm
                     \/ MutationSucceeds
                     \/ MutationFails ]_vars

SpecQueries ==
    Init /\ [][ \/ MountTaskList
                \/ MountEventList
                \/ MountTaskDetail
                \/ FetchSettles
                \/ setTaskSearchKeyword
                \/ setQuickFilter
                \/ setTaskSortBy
                \/ setTaskSortDirection
                \/ setViewMode
                \/ setFilterByStatus
                \/ setFilterByPriority
                \/ setShowCompletedTasks
                \/ setShowPersonalTasks
                \/ setTaskFilters
                \/ setEventSearchKeyword
                \/ setEventSortBy
                \/ setEventSortDirection
                \/ setEventFilters
                \/ CreateTask
                \/ UpdateTask
                \/ DeleteTask
                \/ MarkTaskComplete
                \/ CreateEvent
                \/ UpdateEvent
                \/ DeleteEvent
                \/ MutationSucceeds
                \/ MutationFails ]_vars


\* The hooks against whatever the tasks table holds.
InitMutations ==
    /\ Constructed
    /\ uiSteps = 0
    /\ \A id \in TaskIds : /\ remoteTasks[id].title = <<"A">>
                           /\ remoteTasks[id].priority = "Normal"
                           /\ ~remoteTasks[id].isPersonal
    /\ remoteEvents = [ id \in EventIds |-> NoRow ]
    /\ memberModule = "supabase"
    /\ now = DateInstant("2025-11-01")
    /\ refineCtx = "undefined"
    /\ currentUserId = "u1"
    /\ schemaIn = NoSchemaCall
    /\ schemaOut = NoSchemaCall

\* The mutation hooks called from views while the UI store has modals open
\* or closed.
SpecMutations ==
    InitMutations /\ [][ \/ openTaskForm
                         \/ openEventForm
                         \/ toggleFilterPanel
                         \/ CreateTask
                         \/ UpdateTask
                         \/ DeleteTask
                         \/ MarkTaskComplete
                         \/ CreateEvent
                         \/ UpdateEvent
                         \/ DeleteEvent
                         \/ MutationSucceeds
                         \/ MutationFails ]_vars


\* The hooks that read one task, one event and one event's members meet
\* any of the three member-store revisions and any row of the events table.
InitHooks ==
    /\ Constructed
    /\ uiSteps = 0
    /\ \A id \in TaskIds : /\ remoteTasks[id].title = <<"A">>
                           /\ remoteTasks[id].priority = "Normal"
                           /\ ~remoteTasks[id].isPersonal
    /\ now = DateInstant("2025-11-01")
    /\ refineCtx = "undefined"
    /\ currentUserId = "u1"
    /\ schemaIn = NoSchemaCall
    /\ schemaOut = NoSchemaCall

\* Those hooks rendered with ids that come and go, while tasks are deleted
\* at the remote side.
SpecHooks ==
    InitHooks /\ [][ \/ MountTaskDetail
                     \/ MountMembers
                     \/ FetchSettles
                     \/ FetchMembersSettles
                     \/ DeleteTask
                     \/ MutationSucceeds
                     \/ MutationFails ]_vars


\* The task list against whatever rows the tasks table holds.
InitLists ==
    /\ Constructed
    /\ uiSteps = 0
    /\ \A id \in TaskIds : remoteTasks[id].progress = 40
    /\ remoteEvents = [ id \in EventIds |-> NoRow ]
    /\ memberModule = "supabase"
    /\ eventModule = "supabase"
    /\ now = DateInstant("2025-11-01")
    /\ refineCtx = "undefined"
    /\ currentUserId = "u1"
    /\ schemaIn = NoSchemaCall
    /\ schemaOut = NoSchemaCall

\* A mounted task list whose filters change while its fetches are answered
\* in any order.
SpecLists ==
    InitLists /\ [][ \/ MountTaskList
                     \/ FetchSettles
                     \/ setTaskSearchKeyword
                     \/ setFilterByStatus
                     \/ setFilterByPriority
                     \/ setShowCompletedTasks
                     \/ setShowPersonalTasks ]_vars

\* An EventForm opened, edited, submitted and closed while the fetch of its
\* event and its mutation are answered.
SpecEventEdit ==
    InitHooks /\ [][ \/ ShowEventForm
                     \/ EditEventForm
                     \/ SubmitEventForm
                     \/ CancelEventForm
                     \/ FetchSettles
                     \/ MutationSucceeds
                     \/ MutationFails ]_vars

\* The longest session with the forms that is explored when a form is
\* closed and another opened while a request is pending.
MaxLateSteps == 5

\* The forms with one session step more than MaxFormSteps allows: uiSteps
\* starts below zero by the difference.
InitLate ==
    /\ Constructed
    /\ uiSteps = MaxFormSteps - MaxLateSteps
    /\ remoteEvents = [ id \in EventIds |-> NoRow ]
    /\ memberModule = "supabase"
    /\ remoteTasks = [ id \in TaskIds |-> StoredTask ]
    /\ eventModule = "http"
    /\ now = DateInstant("2025-11-01")
    /\ refineCtx = "parent"
    /\ currentUserId = "u1"
    /\ schemaIn = NoSchemaCall
    /\ schemaOut = NoSchemaCall

\* A TaskForm submitted and cancelled, and a modal opened again, before the
\* request is answered.
SpecLate ==
    InitLate /\ [][ \/ ShowTaskForm
                    \/ EditTaskForm
                    \/ SubmitTaskForm
                    \/ CancelTaskForm
                    \/ ShowEventForm
                    \/ FetchSettles
                    \/ MutationSucceeds
                    \/ MutationFails ]_vars

\* An EventForm in edit mode whose event changes at the remote side and is
\* fetched again while the user types.
SpecEventRefetch ==
    InitHooks /\ [][ \/ ShowEventForm
                     \/ EditEventForm
                     \/ FetchSettles
                     \/ RemoteEventChanges
                     \/ RefetchEvent ]_vars

\* The forms with a remote side that answers every request in the end.
SpecFormsFair == SpecForms /\ WF_vars(MutationSucceeds \/ MutationFails)
(***************************************************************************)
(* Claims about the UI store.                                              *)
(***************************************************************************)
SelectionKeys == {"currentEventId", "currentTaskId"}

\* C7: closeAllModals is one transition after which the five modal flags are
\* false and currentEventId and currentTaskId are null, every other field of
\* the store keeping the value it had before the transition.
C7_CloseAllModalsAtomic ==
    [][ op' = "closeAllModals" =>
          /\ ~ui'.isEventFormOpen
          /\ ~ui'.isTaskFormOpen
          /\ ~ui'.isCustomizeDashboardOpen
          /\ ~ui'.isFilterPanelOpen
          /\ ~ui'.isUserSettingsOpen
          /\ ui'.currentEventId = NULL
          /\ ui'.currentTaskId = NULL
          /\ DOMAIN ui' = DOMAIN ui
          /\ \A f \in DOMAIN ui \ (ModalFlags \cup SelectionKeys) : ui'[f] = ui[f]
      ]_vars

\* C7 witness: closeAllModals has run in a store whose preferences and
\* filters have left their defaults, and they are still in place.
C7_Witness ==
    /\ op = "closeAllModals"
    /\ ui.theme = "light"
    /\ ui.advancedFilters.hasActiveFilters
    /\ \A f \in ModalFlags : ~ui[f]

\* C8: a reload keeps each of the nine durable fields at its value just
\* before the reload and puts the five modal flags, currentEventId,
\* currentTaskId and advancedFilters back to their compiled-in defaults.
C8_ReloadKeepsDurableResetsRest ==
    [][ op' = "reload" =>
          /\ ui'.theme = ui.theme
          /\ ui'.isSidebarCollapsed = ui.isSidebarCollapsed
          /\ ui'.taskFilterStatus = ui.taskFilterStatus
          /\ ui'.taskSortBy = ui.taskSortBy
          /\ ui'.taskSortDirection = ui.taskSortDirection
          /\ ui'.dashboardWidgetState = ui.dashboardWidgetState
          /\ ui'.viewMode = ui.viewMode
          /\ ui'.showCompletedTasks = ui.showCompletedTasks
          /\ ui'.showPersonalTasks = ui.showPersonalTasks
          /\ \A f \in ModalFlags : ui'[f] = FALSE
          /\ ui'.currentEventId = NULL
          /\ ui'.currentTaskId = NULL
          /\ ui'.advancedFilters = InitialAdvancedFilters
      ]_vars

\* C8 witness: a reload has happened and durable fields hold values that
\* differ from the defaults.
C8_Witness ==
    /\ op = "reload"
    /\ ~ui.showPersonalTasks
    /\ ui.theme = "light"

\* C9 as stated: every transition in which an open modal flag becomes false
\* ends with currentEventId, currentTaskId, selectedTaskId and
\* selectedEventId all null.
C9_AnyModalCloseResetsSelections ==
    [][ (\E f \in ModalFlags : ui[f] /\ ~ui'[f]) =>
          /\ ui'.currentEventId = NULL
          /\ ui'.currentTaskId = NULL
          /\ taskStore'.selectedTaskId = NULL
          /\ eventStore'.selectedEventId = NULL
      ]_vars

\* C9 amended: a transition that closes a form modal (isEventFormOpen or
\* isTaskFormOpen goes from true to false) ends with currentEventId and
\* currentTaskId null; closeAllModals leaves selectedTaskId and
\* selectedEventId as they were, and the three panel toggles leave all four
\* selection fields as they were.
C9_FormCloseResetsCurrentIds ==
    [][ /\ ( \/ ui.isEventFormOpen /\ ~ui'.isEventFormOpen
             \/ ui.isTaskFormOpen /\ ~ui'.isTaskFormOpen )
           => ui'.currentEventId = NULL /\ ui'.currentTaskId = NULL
        /\ op' = "closeAllModals"
           => /\ taskStore'.selectedTaskId = taskStore.selectedTaskId
              /\ eventStore'.selectedEventId = eventStore.selectedEventId
        /\ op' \in {"toggleCustomizeDashboard", "toggleFilterPanel", "toggleUserSettings"}
           => /\ ui'.currentEventId = ui.currentEventId
              /\ ui'.currentTaskId = ui.currentTaskId
              /\ taskStore'.selectedTaskId = taskStore.selectedTaskId
              /\ eventStore'.selectedEventId = eventStore.selectedEventId
      ]_vars

\* C9 witness: closeAllModals has closed the modals and reset the current
\* ids while a task is still selected in the task store.
C9_Witness ==
    /\ op = "closeAllModals"
    /\ taskStore.selectedTaskId = "t1"
    /\ ui.currentTaskId = NULL
    /\ ~ui.isTaskFormOpen

(***************************************************************************)
(* Claims about taskSchema.                                                *)
(***************************************************************************)
\* The assignee issue of taskSchema.
AssigneeIssue == Issue(<<"assignees">>, "Please select at least one assignee.")

\* C3: whenever validation returns a result for an input whose other fields
\* are valid and whose assignees list is empty, the input passes if
\* isPersonal is true and fails with the assignee message if isPersonal is
\* false.
C3_EmptyAssigneesRejectedIffNotPersonal ==
    ( /\ schemaIn.schema = "task"
      /\ schemaOut # NoSchemaCall
      /\ schemaOut.outcome # "threw"
      /\ schemaIn.values.assignees = <<>>
      /\ Len(trim(schemaIn.values.title)) > 0
      /\ schemaIn.values.priority \in Priorities
      /\ schemaIn.values.status \in Statuses
      /\ schemaIn.values.dueDate = ""
      /\ ~schemaIn.values.isScheduled
      /\ schemaIn.values.subtasks = <<>> )
    => IF schemaIn.values.isPersonal
       THEN schemaOut.outcome = "valid"
       ELSE schemaOut.outcome = "invalid" /\ AssigneeIssue \in schemaOut.issues

\* C4: no input with isScheduled = true and scheduleStart or scheduleEnd
\* missing (null or empty) passes validation.
C4_ScheduledRequiresStartAndEnd ==
    ( /\ schemaIn.schema = "task"
      /\ schemaOut # NoSchemaCall
      /\ schemaIn.values.isScheduled
      /\ Falsy(schemaIn.values.scheduleStart) \/ Falsy(schemaIn.values.scheduleEnd) )
    => schemaOut.outcome # "valid"

\* C18: validation of a task always ends with a pass/fail result, never an
\* exception, and the result carries "End time must be after start time."
\* on scheduleEnd exactly when isScheduled is true and scheduleStart and
\* scheduleEnd are both present with scheduleEnd before scheduleStart; in
\* particular never when isScheduled is false.
C18_ScheduleEndRefinementDecides ==
    ( /\ schemaIn.schema = "task"
      /\ schemaOut # NoSchemaCall )
    => /\ schemaOut.outcome \in {"valid", "invalid"}
       /\ Issue(<<"scheduleEnd">>, "End time must be after start time.")
              \in schemaOut.issues
          <=> /\ schemaIn.values.isScheduled
              /\ ~Falsy(schemaIn.values.scheduleStart)
              /\ ~Falsy(schemaIn.values.scheduleEnd)
              /\ DateTimeInstant(schemaIn.values.scheduleEnd)
                     < DateTimeInstant(schemaIn.values.scheduleStart)

C20_BlankSubtaskTitleRejected ==
    ( /\ schemaIn.schema = "task"
      /\ schemaOut # NoSchemaCall
      /\ schemaOut.outcome # "threw" )
    => \A i \in DOMAIN schemaIn.values.subtasks :
           Issue(<<"subtasks", i, "title">>, "Subtask name cannot be empty.")
               \in schemaOut.issues
           <=> /\ "title" \in DOMAIN schemaIn.values.subtasks[i]
               /\ trim(schemaIn.values.subtasks[i].title) = <<>>

(***************************************************************************)
(* Claims about the forms.                                                 *)
(***************************************************************************)
\* C1: every submit of a TaskForm holding a personal task whose other fields
\* are valid sends one create or update request, and the payload of that
\* request has assignees equal to exactly the current user, whatever
\* assignees were entered, the empty list included.
C1_PersonalTaskAssignedToCurrentUser ==
    [][ ( /\ op' = "TaskForm.submit"
          /\ refineCtx = "parent"
          /\ currentUserId # UNDEFINED
          /\ taskForm.props.mode = "create" \/ taskForm.props.taskId # UNDEFINED
          /\ taskForm.values.isPersonal
          /\ Len(trim(taskForm.values.title)) > 0
          /\ taskForm.values.dueDate = ""
          /\ ~taskForm.values.isScheduled )
        => /\ Len(requests') = Len(requests) + 1
           /\ LET sent == requests'[Len(requests')]
              IN  IF sent.kind = "create"
                  THEN sent.payload.assignees = <<currentUserId>>
                  ELSE sent.payload.data.assignees = <<currentUserId>>
      ]_vars

\* C2: a submit of an EventForm whose input is not multi-day and otherwise
\* valid passes validation, and sends its request, if and only if endTime is
\* strictly later than startTime; when it does not pass, an error is attached
\* to endTime and no request is sent.
C2_SameDayEventNeedsLaterEndTime ==
    [][ ( /\ op' = "EventForm.submit"
          /\ ~eventForm.values.isMultiDay
          /\ Len(eventForm.values.title) \in 1..MaxTitleLength
          /\ eventForm.values.startDate # ""
          /\ eventForm.values.startTime # ""
          /\ eventForm.values.endTime # "" )
        => IF TimeMinutes(eventForm.values.endTime) > TimeMinutes(eventForm.values.startTime)
           THEN /\ Len(requests') = Len(requests) + 1
                /\ eventForm'.errors = {}
           ELSE /\ requests' = requests
                /\ \E issue \in eventForm'.errors : issue.path = <<"endTime">>
      ]_vars

\* C10: a submit whose input breaks a rule of the form's schema sends no
\* request and touches no cached query; the form is idle again with the
\* field errors, and its modal is still open.
C10_InvalidSubmitSendsNothing ==
    [][ /\ ( /\ op' = "TaskForm.submit"
             /\ taskSchema(taskForm.values, now, "parent").outcome = "invalid" )
           => /\ requests' = requests
              /\ cache' = cache
              /\ taskForm'.mounted
              /\ ~taskForm'.isSubmitting
              /\ taskForm'.errors = taskSchema(taskForm.values, now, "parent").issues
              /\ ui.isTaskFormOpen /\ ui'.isTaskFormOpen
        /\ ( /\ op' = "EventForm.submit"
             /\ eventSchema(eventForm.values).outcome = "invalid" )
           => /\ requests' = requests
              /\ cache' = cache
              /\ eventForm'.mounted
              /\ ~eventForm'.isSubmitting
              /\ eventForm'.errors = eventSchema(eventForm.values).issues
              /\ ui.isEventFormOpen /\ ui'.isEventFormOpen
      ]_vars

C12_SubmittingFormIsInert ==
    [][ /\ (refineCtx = "parent" /\ taskForm.mounted /\ taskForm.isSubmitting)
           => op' \notin {"TaskForm.edit", "TaskForm.submit", "TaskForm.cancel"}
        /\ (eventForm.mounted /\ eventForm.isSubmitting)
           => op' \notin {"EventForm.edit", "EventForm.submit", "EventForm.cancel"}
      ]_vars

\* C13: a cancel of either form sends no request and leaves every request
\* as it was; after it the five modal flags are false and the two current
\* ids are null, and every other field of the UI store, the persisted
\* preferences, the filter/sort stores and the query cache are unchanged.
C13_CancelOnlyClosesModals ==
    [][ op' \in {"TaskForm.cancel", "EventForm.cancel"}
        => /\ Len(requests') = Len(requests)
           /\ \A i \in DOMAIN requests :
                  [ requests'[i] EXCEPT !.origin = requests[i].origin ] = requests[i]
           /\ \A f \in ModalFlags : ~ui'[f]
           /\ \A k \in SelectionKeys : ui'[k] = NULL
           /\ \A k \in DOMAIN ui \ (ModalFlags \cup SelectionKeys) : ui'[k] = ui[k]
           /\ storage' = storage
           /\ taskStore' = taskStore
           /\ eventStore' = eventStore
           /\ cache' = cache
      ]_vars

\* A form was cancelled while a list query was cached.
C13_Witness ==
    /\ op \in {"TaskForm.cancel", "EventForm.cancel"}
    /\ cache # {}
    /\ ~ui.isTaskFormOpen
    /\ ~ui.isEventFormOpen

\* C14: when a create or update request fails, error notifications and no
\* others are raised for it, and nothing else changes: the UI store (modal
\* flags and current ids included) and localStorage are as they were, no
\* cached query is touched, no other request is altered, and a rendered form
\* keeps its field contents and is idle again if the request was its own.
C14_FailedMutationOnlyNotifies ==
    [][ op' \in { "task.create.error", "task.update.error",
                  "event.create.error", "event.update.error" }
        => \E i \in DOMAIN requests :
              /\ requests[i].status = "pending"
              /\ requests'[i].status = "error"
              /\ requests'[i].toasts # <<>>
              /\ \A k \in DOMAIN requests'[i].toasts :
                     requests'[i].toasts[k].type = "error"
              /\ \A j \in DOMAIN requests \ {i} : requests'[j] = requests[j]
              /\ ui' = ui
              /\ storage' = storage
              /\ cache' = cache
              /\ taskForm' = IF requests[i].origin = "taskForm"
                             THEN [ taskForm EXCEPT !.isSubmitting = FALSE ]
                             ELSE taskForm
              /\ eventForm' = IF requests[i].origin = "eventForm"
                              THEN [ eventForm EXCEPT !.isSubmitting = FALSE ]
                              ELSE eventForm
      ]_vars

\* The create request of a filled-in TaskForm failed while the task list
\* was cached: the form is still open with what was entered.
C14_Witness ==
    /\ op = "task.create.error"
    /\ cache # {}
    /\ ui.isTaskFormOpen
    /\ taskForm.mounted
    /\ ~taskForm.isSubmitting
    /\ taskForm.values.title = <<"B">>

\* C17: a submit of an EventForm holding a multi-day event whose other
\* fields are valid sends its request, with no field error, when endDate is
\* empty or is a day not before startDate; otherwise it sends nothing and
\* attaches "End date must be start date or later" to endDate.
C17_MultiDayEndDateNotBeforeStart ==
    [][ ( /\ op' = "EventForm.submit"
          /\ eventForm.values.isMultiDay
          /\ Len(eventForm.values.title) \in 1..MaxTitleLength
          /\ eventForm.values.startDate # ""
          /\ eventForm.values.startTime # ""
          /\ eventForm.values.endTime # "" )
        => IF \/ eventForm.values.endDate = ""
              \/ DayIndex(eventForm.values.endDate) >= DayIndex(eventForm.values.startDate)
           THEN /\ Len(requests') = Len(requests) + 1
                /\ LET sent == requests'[Len(requests')]
                   IN  IF sent.kind = "create"
                       THEN sent.payload = eventForm.values
                       ELSE sent.payload.data = eventForm.values
                /\ eventForm'.errors = {}
           ELSE /\ requests' = requests
                /\ eventForm'.errors =
                       { Issue(<<"endDate">>, "End date must be start date or later") }
                /\ ~eventForm'.isSubmitting
      ]_vars

\* A multi-day event ending the day before it starts was submitted and
\* refused.
C17_Witness ==
    /\ op = "EventForm.submit"
    /\ eventForm.mounted
    /\ eventForm.values.isMultiDay
    /\ eventForm.values.endDate = "2025-10-31"
    /\ eventForm.values.startDate = "2025-11-01"
    /\ eventForm.errors = { Issue(<<"endDate">>, "End date must be start date or later") }
    /\ requests = <<>>

(***************************************************************************)
(* Claims about the query cache.                                           *)
(***************************************************************************)
\* C5: after a successful task mutation (create, update, delete, mark
\* complete) every cached task query, the list queries and the per-id query
\* alike, is marked invalidated; likewise every cached event query after a
\* successful event mutation.
C5_MutationSuccessStalesEveryQuery ==
    [][ /\ op' \in { "task.create.success", "task.update.success",
                     "task.delete.success", "task.markComplete.success" }
           => \A e \in cache' : e.key.scope \in {"tasks", "task"} => e.isInvalidated
        /\ op' \in { "event.create.success", "event.update.success",
                     "event.delete.success" }
           => \A e \in cache' : e.key.scope \in {"events", "event"} => e.isInvalidated
      ]_vars

\* The event-store inputs C6 lists.
C6_EventInputs ==
    { "searchKeyword", "eventSortBy", "eventSortDirection", "filterByProgress",
      "filterByDate" }

\* C6: while a list view is mounted, a change of any of the store's search,
\* sort or filter inputs gives the list query another key and starts exactly
\* one fetch whose parameters are those of the new state (the case of a
\* fetch for the new key already being in flight, which the fetching library
\* de-duplicates, set aside).
C6_FilterChangeFetchesOnce ==
    [][ /\ ( /\ views.taskList
             /\ \E f \in TaskListInputs : taskStore'[f] # taskStore[f]
             /\ ~Fetching(cache, TaskListKey(taskStore')) )
           => /\ TaskListKey(taskStore') # TaskListKey(taskStore)
              /\ fetchCount' = fetchCount + 1
              /\ lastFetch' = [ scope |-> "tasks", params |-> TaskListParams(taskStore') ]
        /\ ( /\ views.eventList
             /\ \E f \in C6_EventInputs : eventStore'[f] # eventStore[f]
             /\ ~Fetching(cache, EventListKey(eventStore', eventModule)) )
           => /\ EventListKey(eventStore', eventModule) # EventListKey(eventStore, eventModule)
              /\ fetchCount' = fetchCount + 1
              /\ lastFetch' = [ scope |-> "events",
                                params |-> EventListParams(eventStore', eventModule) ]
      ]_vars

\* C15: the success of a create or update request, of a task or of an
\* event, leaves the five modal flags false and the two current ids null;
\* the success of a delete or mark-complete request leaves each of those
\* seven fields as it was.
C15_OnlyCreateAndUpdateCloseModals ==
    [][ /\ op' \in { "task.create.success", "task.update.success",
                     "event.create.success", "event.update.success" }
           => /\ \A f \in ModalFlags : ~ui'[f]
              /\ \A k \in SelectionKeys : ui'[k] = NULL
        /\ op' \in { "task.delete.success", "task.markComplete.success",
                     "event.delete.success" }
           => \A k \in ModalFlags \cup SelectionKeys : ui'[k] = ui[k]
      ]_vars

\* A task was deleted while the task modal was open on it: the modal is
\* still open on it.
C15_Witness ==
    /\ op = "task.delete.success"
    /\ ui.isTaskFormOpen
    /\ ui.currentTaskId = "t1"

\* C16: a call useMarkTaskComplete({id, completed}) sends one update for
\* task id and nothing else; when that update succeeds, the row of the task
\* has status "Done" and progress 100 if completed, status "In Progress"
\* and the progress it had if not, and every other field of the row is as
\* it was.
C16_MarkCompleteWritesStatusAndProgress ==
    [][ /\ op' = "task.markComplete"
           => /\ Len(requests') = Len(requests) + 1
              /\ SubSeq(requests', 1, Len(requests)) = requests
              /\ LET sent == requests'[Len(requests')]
                 IN  /\ sent.entity = "task"
                     /\ sent.kind = "markComplete"
                     /\ sent.status = "pending"
                     /\ sent.payload.id \in TaskIds
              /\ remoteTasks' = remoteTasks
        /\ op' = "task.markComplete.success"
           => \E i \in DOMAIN requests :
                 LET call == requests[i].payload
                     before == remoteTasks[call.id]
                     after == remoteTasks'[call.id]
                 IN  /\ requests[i].kind = "markComplete"
                     /\ requests[i].status = "pending"
                     /\ requests'[i].status = "success"
                     /\ after.status = IF call.completed THEN "Done" ELSE "In Progress"
                     /\ after.progress = IF call.completed THEN 100 ELSE before.progress
                     /\ DOMAIN after = DOMAIN before
                     /\ \A f \in DOMAIN before \ {"status", "progress"} :
                            after[f] = before[f]
      ]_vars

\* A task that was Done at progress 100 was marked not completed: it is In
\* Progress, still at 100.
C16_Witness ==
    /\ op = "task.markComplete.success"
    /\ \E id \in TaskIds :
           /\ remoteTasks[id] # NoRow
           /\ remoteTasks[id].status = "In Progress"
           /\ remoteTasks[id].progress = 100
(***************************************************************************)
(* Claims about the hooks that read one entity or one event's members.     *)
(***************************************************************************)
\* C22: whatever ids useFetchTask and useMembers are rendered with, one
\* after the other, the remote side never receives a read of a task or of
\* an event's members whose id is null, undefined or empty.
C22_MissingIdNeverReachesRemote ==
    \A read \in remoteReads : read.id \notin {NULL, UNDEFINED, ""}

\* Both hooks are rendered with a missing id, useMembers after it was
\* rendered with an event's id and read that event's members.
C22_Witness ==
    /\ views.taskDetail.mounted /\ views.taskDetail.taskId = NULL
    /\ views.members.mounted /\ views.members.eventId = UNDEFINED
    /\ remoteReads = { [ scope |-> "members", id |-> "e1" ] }

\* C23: while useFetchTask is rendered with a missing id its data is absent,
\* and while useMembers is rendered with a missing id its data is the empty
\* list, whatever was fetched before.
C23_MissingIdGivesNoData ==
    /\ ( views.taskDetail.mounted /\ views.taskDetail.taskId \in {NULL, UNDEFINED, ""} )
       => useFetchTask(views.taskDetail.taskId).data = [ undefined |-> TRUE ]
    /\ ( views.members.mounted /\ views.members.eventId \in {NULL, UNDEFINED, ""} )
       => useMembers(views.members.eventId) = <<>>

\* C24: when the fetch of one task finds no row under its id, the query
\* that settles is not in error and its data is absent or null.
C24_NotFoundIsNoError ==
    [][ op' = "query.notFound"
        => \A e \in cache' \ cache :
               /\ e.status # "error"
               /\ e.data \in { [ undefined |-> TRUE ], [ null |-> TRUE ] } ]_vars
(***************************************************************************)
(* Claims about the task list fetch.                                       *)
(***************************************************************************)
\* C28: while the task list is mounted, once every fetch has been answered
\* and the fetch for the store's current key succeeded, the data the list
\* hook shows is the response to the fetch made with the current filter
\* state, and it is no placeholder; and the success of a fetch for another
\* key than the current one, arriving late, leaves what the hook shows as
\* it was.
C28_LastKeyWins ==
    [][ /\ ( /\ views'.taskList
             /\ \A e \in cache' : e.fetchStatus = "idle"
             /\ \E e \in cache' : e.key = TaskListKey(taskStore') /\ e.status = "success" )
           => /\ useFetchTasks'.data.params = TaskListParams(taskStore')
              /\ ~useFetchTasks'.isPlaceholderData
        /\ ( /\ views.taskList
             /\ op' = "query.success"
             /\ \E e \in cache' \ cache : e.key # TaskListKey(taskStore) )
           => useFetchTasks' = useFetchTasks
      ]_vars

\* The filters changed while the first fetch was pending, and both fetches
\* were answered: the list shows the answer to the second.
C28_Witness ==
    /\ views.taskList
    /\ \A e \in cache : e.fetchStatus = "idle" /\ e.status = "success"
    /\ Cardinality(cache) = 2
    /\ useFetchTasks.data.params = TaskListParams(taskStore)
    /\ \E e \in cache : e.data.ids # useFetchTasks.data.ids

\* The characters of the search keywords.
C29_Chars(keyword) ==
    CASE keyword = "" -> <<>>
      [] keyword = "crew" -> <<"c", "r", "e", "w">>
      [] keyword = "c_ew" -> <<"c", "_", "e", "w">>

\* C29: every task in the result of a task list fetch has its
\* status in filterByStatus and its priority in filterByPriority, whatever
\* those lists are, the empty list included; its title contains
\* searchKeyword; it is not Done when showCompletedTasks is false and not
\* personal when showPersonalTasks is false.
C29_ResultSatisfiesEveryFilter ==
    \A e \in cache :
        ( e.key.scope = "tasks" /\ e.data # [ undefined |-> TRUE ] )
        => \A id \in e.data.ids :
               LET task == remoteTasks[id]
                   filters == e.key.args
                   keyword == C29_Chars(filters.searchKeyword)
               IN  /\ \E i \in DOMAIN filters.filterByStatus :
                          filters.filterByStatus[i] = task.status
                   /\ \E i \in DOMAIN filters.filterByPriority :
                          filters.filterByPriority[i] = task.priority
                   /\ \E i \in 0..Len(task.title) :
                          /\ i + Len(keyword) <= Len(task.title)
                          /\ SubSeq(task.title, i + 1, i + Len(keyword)) = keyword
                   /\ ~filters.showCompletedTasks => task.status # "Done"
                   /\ ~filters.showPersonalTasks => ~task.isPersonal
(***************************************************************************)
(* Claims about the EventForm in edit mode.                                *)
(***************************************************************************)
\* What a form populated from `event` shows in field f: the event's value,
\* of a date its ten-character day, or the fixed default if the event has
\* no such field.
C21_Populated(event, f, value) ==
    IF f \notin DOMAIN event
    THEN value = EventFormDefaults[f]
    ELSE IF f \in {"startDate", "endDate"}
    THEN Len(value) = 10 /\ event[f] \in { value, value \o "T00:00:00Z" }
    ELSE value = event[f]

\* C21: in edit mode the values of the EventForm change, other than by the
\* user's input, only in the step in which the fetch of its event succeeds,
\* and then every field at once takes the event's value, or its fixed
\* default if the event has no such field; the step in which the event
\* first arrives does reset the form; and a form that is opened shows all
\* defaults or, the event being cached, all of the event.
C21_EditModeResetIsAtomic ==
    [][ LET event == remoteEvents[eventForm'.props.eventId]
            populated == \A f \in DOMAIN EventFormDefaults :
                             C21_Populated(event, f, eventForm'.values[f])
            arrives == \E e \in cache' \ cache :
                           /\ e.key = EventKey(eventForm.props.eventId)
                           /\ e.status = "success"
                           /\ \A c \in cache \ cache' : c.data = [ undefined |-> TRUE ]
        IN  ( eventForm'.mounted /\ eventForm'.props.mode = "edit" )
            => /\ ( eventForm.mounted /\ eventForm'.values # eventForm.values
                                      /\ op' # "EventForm.edit" )
                  => op' = "query.success" /\ populated
               /\ ( eventForm.mounted /\ op' = "query.success" /\ arrives ) => populated
               /\ ~eventForm.mounted
                  => eventForm'.values = EventFormDefaults \/ populated
      ]_vars

\* The fetch of an event without color and participants has just resolved
\* under an EventForm in edit mode: the form shows the event's title and
\* day, and the defaults for what the event lacks.
C21_Witness ==
    /\ eventForm.mounted
    /\ eventForm.props.mode = "edit"
    /\ op = "query.success"
    /\ "color" \notin DOMAIN remoteEvents["e1"]
    /\ remoteEvents["e1"] # NoRow
    /\ eventForm.values.title = <<"E">>
    /\ eventForm.values.startDate = "2025-11-01"
    /\ eventForm.values.color = "#3B82F6"
    /\ eventForm.values.participants = <<>>
    /\ eventForm.values.isMultiDay = FALSE
(***************************************************************************)
(* Claims about mutations that settle late, or twice.                      *)
(***************************************************************************)
\* C25: when a request sent by a form settles after that form's modal was
\* closed, its success leaves every modal flag false and both current ids
\* null, with localStorage holding the persisted part of that state, and
\* its failure leaves the UI store as it was.
C25_LateHandlerLeavesUiWellFormed ==
    [][ \A i \in DOMAIN requests :
            ( /\ requests[i].status = "pending"
              /\ requests[i].sender \in {"taskForm", "eventForm"}
              /\ requests[i].origin = "hook"
              /\ requests'[i].status # "pending" )
            => IF requests'[i].status = "success"
               THEN /\ \A flag \in ModalFlags : ~ui'[flag]
                    /\ ui'.currentEventId = NULL
                    /\ ui'.currentTaskId = NULL
                    /\ \A f \in DOMAIN ui \ (ModalFlags \cup {"currentEventId", "currentTaskId"}) :
                           ui'[f] = ui[f]
                    /\ storage' = partialize(ui')
               ELSE ui' = ui /\ storage' = storage
      ]_vars

\* The TaskForm was cancelled while its request was pending, the event modal
\* was opened in the same session, and the request has just succeeded.
C25_Witness ==
    /\ \E i \in DOMAIN requests :
           /\ requests[i].sender = "taskForm"
           /\ requests[i].origin = "hook"
           /\ requests[i].status = "success"
    /\ \E i \in 1..Len(op) : SubSeq(op, i, Len(op)) = ".success"
    /\ ~eventForm.mounted
    /\ \E e \in cache : e.key.scope = "event"
    /\ \A flag \in ModalFlags : ~ui[flag]

\* C26: the step that invokes a mutation leaves the query cache and the UI
\* store, localStorage included, exactly as they were, and so does the
\* step in which a request fails; and the data of a cached query changes in
\* no step but the one in which a fetch of it is answered.
C26_NoOptimisticUpdate ==
    [][ /\ Len(requests') > Len(requests)
           => cache' = cache /\ ui' = ui /\ storage' = storage
        /\ ( \E i \in DOMAIN requests :
                 requests[i].status = "pending" /\ requests'[i].status = "error" )
           => cache' = cache /\ ui' = ui /\ storage' = storage
        /\ \A e \in cache' :
               IF \E c \in cache : c.key = e.key
               THEN \A c \in cache :
                        (c.key = e.key /\ c.data # e.data) => op' = "query.success"
               ELSE e.data = [ undefined |-> TRUE ]
      ]_vars

\* An update of a task is pending while the cache holds the list fetched
\* before it was invoked, not stale and not being fetched again.
C26_Witness ==
    /\ \E i \in DOMAIN requests :
           /\ requests[i].status = "pending"
           /\ requests[i].entity = "task"
           /\ requests[i].kind = "update"
    /\ op = "task.update"
    /\ \E e \in cache :
           /\ e.key.scope = "tasks"
           /\ e.status = "success"
           /\ e.fetchStatus = "idle"
           /\ ~e.isInvalidated

C30_Merged(before, partial, after) ==
    /\ DOMAIN after = DOMAIN before
    /\ \A f \in DOMAIN before :
           after[f] = IF f \in DOMAIN partial THEN partial[f] ELSE before[f]

\* C30: a step of setTaskFilters, setEventFilters, setAdvancedFilters or
\* setDashboardWidgetState leaves the record it sets as it was except for
\* the fields of one of the partial records the setter is called with,
\* which take the values given; and it changes nothing else in its store.
C30_CompoundSettersMerge ==
    [][ /\ op' = "setDashboardWidgetState"
           => /\ \E partial \in WidgetPartials :
                     C30_Merged(ui.dashboardWidgetState, partial, ui'.dashboardWidgetState)
              /\ \A f \in DOMAIN ui \ {"dashboardWidgetState"} : ui'[f] = ui[f]
        /\ op' = "setAdvancedFilters"
           => /\ \E partial \in AdvancedFilterPartials :
                     C30_Merged(ui.advancedFilters, partial, ui'.advancedFilters)
              /\ \A f \in DOMAIN ui \ {"advancedFilters"} : ui'[f] = ui[f]
        /\ op' = "task.setTaskFilters"
           => \E partial \in { [searchKeyword |-> "crew", showCompletedTasks |-> FALSE],
                               [viewMode |-> "Board View"] } :
                  C30_Merged(taskStore, partial, taskStore')
        /\ op' = "event.setEventFilters"
           => \E partial \in { [filterByDate |-> <<"This Week">>],
                               [filterByProgress |-> <<"Completed">>],
                               [searchKeyword |-> "launch", eventSortDirection |-> "desc"] } :
                  C30_Merged(eventStore, partial, eventStore')
      ]_vars

\* upcomingEvents was switched off after miniCalendar had been switched on
\* and progressOverview off: the two earlier changes are still there.
C30_Witness ==
    /\ op = "setDashboardWidgetState"
    /\ ui.dashboardWidgetState = [ upcomingEvents |-> FALSE,
                                   upcomingDeadlines |-> TRUE,
                                   recentActivity |-> TRUE,
                                   progressOverview |-> FALSE,
                                   miniCalendar |-> TRUE ]
(***************************************************************************)
(* Claims about what a submit sends.                                       *)
(***************************************************************************)
\* C31: a submit of a form in edit mode whose input passes validation sends
\* exactly one request, an update of the entity named by the form's id
\* prop, whatever that prop is; and a submit that sends no request leaves
\* the form's modal open.
C31_EditSubmitSendsOneUpdate ==
    [][ /\ ( /\ op' = "TaskForm.submit"
             /\ taskForm.props.mode = "edit"
             /\ RunsOnSubmit(taskSchema(taskForm.values, now, refineCtx)) )
           => /\ Len(requests') = Len(requests) + 1
              /\ requests'[Len(requests')].entity = "task"
              /\ requests'[Len(requests')].kind = "update"
        /\ ( /\ op' = "EventForm.submit"
             /\ eventForm.props.mode = "edit"
             /\ RunsOnSubmit(eventSchema(eventForm.values)) )
           => /\ Len(requests') = Len(requests) + 1
              /\ requests'[Len(requests')].entity = "event"
              /\ requests'[Len(requests')].kind = "update"
        /\ ( op' = "TaskForm.submit" /\ Len(requests') = Len(requests) )
           => ui'.isTaskFormOpen
        /\ ( op' = "EventForm.submit" /\ Len(requests') = Len(requests) )
           => ui'.isEventFormOpen
      ]_vars

\* C32: whenever the mounted task list is given data by useFetchTasks, the
\* data is the answer to a fetch made with the filter, sort and search
\* state the store has now.
C32_DataIsOfCurrentKey ==
    ( views.taskList /\ useFetchTasks.data # [ undefined |-> TRUE ] )
    => useFetchTasks.data.params = TaskListParams(taskStore)

(***************************************************************************)
(* Claims about taskSchema.                                                *)
(***************************************************************************)
\* C33: in every result validation returns, a dueDate carries "Due date
\* cannot be in the past." exactly when it names a calendar day before the
\* day of validation; a task due on the day of validation is accepted at
\* every instant of that day.
C33_DueTodayAccepted ==
    ( /\ schemaIn.schema = "task"
      /\ schemaOut # NoSchemaCall
      /\ schemaOut.outcome # "threw"
      /\ schemaIn.values.dueDate \notin {UNDEFINED, NULL, ""} )
    => ( Issue(<<"dueDate">>, "Due date cannot be in the past.") \in schemaOut.issues
         <=> DayIndex(schemaIn.values.dueDate) < now \div TicksPerDay )

\* C40: every result of validation that is valid carries a title of at
\* least one character, and a title that is empty or white space only gets
\* "Please enter a task title.".
C40_ValidTitleIsNotEmpty ==
    ( /\ schemaIn.schema = "task"
      /\ schemaOut # NoSchemaCall
      /\ schemaOut.outcome # "threw" )
    => /\ schemaOut.outcome = "valid" => Len(schemaOut.data.title) >= 1
       /\ (\A i \in DOMAIN schemaIn.values.title : schemaIn.values.title[i] = " ")
          => Issue(<<"title">>, "Please enter a task title.") \in schemaOut.issues

(***************************************************************************)
(* Claims about the modal actions.                                         *)
(***************************************************************************)
\* C35: after every step of openEventForm, openTaskForm, closeAllModals and
\* the three panel toggles, currentEventId is null unless isEventFormOpen
\* and currentTaskId is null unless isTaskFormOpen; openEventForm leaves the
\* event modal open with an id it may be given as currentEventId, and
\* openTaskForm the task modal with currentTaskId, each changing no other
\* field.
C35_CurrentIdOnlyWhileFormOpen ==
    [][ /\ ui'.currentEventId # NULL => ui'.isEventFormOpen
        /\ ui'.currentTaskId # NULL => ui'.isTaskFormOpen
        /\ op' = "openEventForm"
           => /\ ui'.isEventFormOpen
              /\ ui'.currentEventId \in EventIds \cup {NULL}
              /\ \A f \in DOMAIN ui \ {"isEventFormOpen", "currentEventId"} : ui'[f] = ui[f]
        /\ op' = "openTaskForm"
           => /\ ui'.isTaskFormOpen
              /\ ui'.currentTaskId \in TaskIds \cup {NULL}
              /\ \A f \in DOMAIN ui \ {"isTaskFormOpen", "currentTaskId"} : ui'[f] = ui[f]
      ]_vars

\* The task form was opened for t1 over an open event form for e1 and an
\* open filter panel.
C35_Witness ==
    /\ op = "openTaskForm"
    /\ ui.isEventFormOpen /\ ui.currentEventId = "e1"
    /\ ui.isTaskFormOpen /\ ui.currentTaskId = "t1"
    /\ ui.isFilterPanelOpen

(***************************************************************************)
(* Claims about the stores behind the task list.                           *)
(***************************************************************************)
\* C37: the latest task list fetch was made with the sort field, the sort
\* direction and the two show flags that the UI store holds.
C37_ListFetchUsesUiStore ==
    lastFetch.scope = "tasks"
    => /\ lastFetch.params.sortBy = ui.taskSortBy
       /\ lastFetch.params.sortDirection = ui.taskSortDirection
       /\ lastFetch.params.showCompleted = (IF ui.showCompletedTasks THEN "1" ELSE "0")
       /\ lastFetch.params.showPersonal = (IF ui.showPersonalTasks THEN "1" ELSE "0")

(***************************************************************************)
(* Claims about requests that outlive their form.                          *)
(***************************************************************************)
\* C38: when a request sent by a form succeeds after that form was closed,
\* a form that was opened since stays open, and the current ids stay as
\* they are.
C38_LateSuccessSparesOtherModal ==
    [][ \A i \in DOMAIN requests :
            ( /\ requests[i].status = "pending"
              /\ requests[i].sender \in {"taskForm", "eventForm"}
              /\ requests[i].origin = "hook"
              /\ requests'[i].status = "success" )
            => /\ ui'.isTaskFormOpen = ui.isTaskFormOpen
               /\ ui'.isEventFormOpen = ui.isEventFormOpen
               /\ ui'.currentTaskId = ui.currentTaskId
               /\ ui'.currentEventId = ui.currentEventId
      ]_vars

(***************************************************************************)
(* Claims about the EventForm's reset.                                     *)
(***************************************************************************)
\* C39: once the cache holds the event of an EventForm in edit mode, a
\* later answer to a fetch of that event leaves the values of the form as
\* they are.
C39_RefetchKeepsTypedValues ==
    [][ ( /\ eventForm.mounted
          /\ eventForm.props.mode = "edit"
          /\ \E e \in cache : /\ e.key = EventKey(eventForm.props.eventId)
                              /\ e.data # [ undefined |-> TRUE ]
          /\ op' = "query.success" )
        => eventForm'.values = eventForm.values
      ]_vars

(***************************************************************************)
(* Claims about useMembers.                                                *)
(***************************************************************************)
\* C36: whenever a consumer is rendered with useMembers(eventId) for an
\* event, every member in the list it is given is a member of that event:
\* m1, the member of e1, is given to a consumer of e1 only.
C36_MembersAreOfTheEvent ==
    ( views.members.mounted /\ views.members.eventId \notin {UNDEFINED, ""} )
    => \A i \in DOMAIN useMembers(views.members.eventId) :
           useMembers(views.members.eventId)[i] = "m1" => views.members.eventId = "e1"

(***************************************************************************)
(* Claims about the end of a submit.                                       *)
(***************************************************************************)
\* C34: a rendered form that is submitting is, some time later, closed or no
\* longer submitting, and an EventForm that is disabled is closed or enabled
\* again.
C34_SubmitEventuallyEnds ==
    /\ (taskForm.mounted /\ taskForm.isSubmitting)
           ~> ~(taskForm.mounted /\ taskForm.isSubmitting)
    /\ (eventForm.mounted /\ EventFormDisabled)
           ~> ~(eventForm.mounted /\ EventFormDisabled)
====
